---- MODULE Spec2Model ----
(***************************************************************************)
(* Interaction runtime of server/games/base.py: the action model, the      *)
(* event dispatcher (Game.handle_event), the execution pipeline            *)
(* (Game.execute_action) and the keybind registry.                         *)
(*                                                                         *)
(* Game rules are not part of base.py.  The part of the game state that    *)
(* the enablement / visibility predicates and the options providers read   *)
(* is kept as flags (off, hid, noOptions, status); handlers and the rules  *)
(* step change them.  Calls on collaborators (the user, the menus, the     *)
(* options object) are recorded in the log of the call that makes them.    *)
(*                                                                         *)
(* The turn-order manager and the duration estimation run are state of the *)
(* same game object; each has a specification of its own (TurnSpec,        *)
(* EstimateSpec) that starts from the same initial state.                  *)
(***************************************************************************)
EXTENDS Integers, Sequences, FiniteSets, TLC

VARIABLES
    pending,            \* Game._pending_actions: player id -> action id | None
    action_context,     \* Game._action_context: player id -> context | None
    status_box_open,    \* Game._status_box_open
    actions_menu_open,  \* Game._actions_menu_open
    status,             \* Game.status
    off,                \* action ids whose is_enabled predicate now reports a reason
    hid,                \* action ids whose is_hidden predicate now reports hidden
    noOptions,          \* TRUE when the options provider returns an empty list
    last,               \* history: the call handled by the last step
    pre,                \* history: the state the last call started from
    log,                \* history: what the last call did, in order
    resolutions,        \* history: what the resolve_action calls of the last step returned
    turn_index,         \* Game.turn_index
    turn_direction,     \* Game.turn_direction
    turn_skip_count,    \* Game.turn_skip_count
    turn_player_ids,    \* Game.turn_player_ids
    turn_last,          \* history: the last turn operation and its argument
    turn_pre,           \* history: the turn state the last turn operation started from
    _estimate_threads,  \* Game._estimate_threads: the workers of the run, in start order
    _estimate_results,  \* Game._estimate_results
    _estimate_errors,   \* Game._estimate_errors
    _estimate_running,  \* Game._estimate_running
    _estimate_lock,     \* Game._estimate_lock: the worker holding it, 0 when free
    estimate_report,    \* the last report handed to the engine for display
    estimate_last,      \* history: the last step of the estimation
    estimate_pre,       \* history: the estimation state a start or a poll found
    restored,           \* history: TRUE when the last step loaded the game from its save
    saved_game,         \* history: the game object that save was made of
    _language_menu_callbacks, \* common_flows._language_menu_callbacks
    warmup_active,      \* Localization.is_warmup_active()
    language_last,      \* history: the last language-menu call
    language_pre,       \* history: the callbacks and the warmup that call found
    language_log,       \* history: what that call did, in order
    language_result,    \* history: what that call returned
    yahtzee_player,     \* the Yahtzee player and turn state that bot_think reads
    bot_seen,           \* history: the state the last bot_think call was given
    bot_returned,       \* history: what the last bot_think call returned
    bot_toggles         \* history: the toggles applied since the dice were last rolled

gameVars == <<pending, action_context, status_box_open, actions_menu_open, status,
              off, hid, noOptions, last, pre, log, resolutions>>

turnVars == <<turn_index, turn_direction, turn_skip_count, turn_player_ids,
              turn_last, turn_pre>>

estimateVars == <<_estimate_threads, _estimate_results, _estimate_errors,
                  _estimate_running, _estimate_lock, estimate_report,
                  estimate_last, estimate_pre>>

persistVars == <<restored, saved_game>>

languageVars == <<_language_menu_callbacks, warmup_active, language_last,
                  language_pre, language_log, language_result>>

yahtzeeVars == <<yahtzee_player, bot_seen, bot_returned, bot_toggles>>

vars == <<gameVars, turnVars, estimateVars, persistVars, languageVars, yahtzeeVars>>

None == "<None>"

----------------------------------------------------------------------------
(* Bounds *)

\* largest 1-based index a turn-menu event carries
MaxSelection == 6

\* largest number of skips the rules queue up before the turn advances
MaxSkip == 2

\* largest number of workers an estimate is started with
MaxWorkers == 3

\* the safety tick ceiling of a simulated playout
TickCeiling == 2

\* the rolls of a Yahtzee turn
MaxRolls == 3

----------------------------------------------------------------------------
(* Players *)

Players == {"p1", "p2", "p3"}

\* Player.is_bot
is_bot(p) == p = "p2"

\* Player.is_spectator / Game._is_player_spectator
_is_player_spectator(p) == p = "p3"

\* Game._users: the players a user is attached to (p3 is not reattached yet)
_users == {"p1", "p2"}

\* Game.get_user
get_user(p) == IF p \in _users THEN p ELSE None

\* the players whose input events reach handle_event
EventPlayers == {"p1", "p3"}

----------------------------------------------------------------------------
(* Action model *)

NoInput == "no_input"
MenuInput == "MenuInput"
EditboxInput == "EditboxInput"

Action(id, handler, input, reason) ==
    [id |-> id, label |-> id, handler |-> handler, input_request |-> input,
     reason |-> reason]

\* the result of a lookup that finds no action (Python's None)
NoAction == Action(None, None, None, None)

\* Game.setup_player_actions: turn set first, then lobby, options, standard
ActionSetsOf(p) ==
    << [name |-> "turn",
        actions |-> << Action("roll", "_action_roll", NoInput, "action-not-your-turn") >>],
       [name |-> "lobby",
        actions |-> << Action("add_bot", "_action_add_bot", EditboxInput, "action-not-host"),
                       Action("remove_bot", "_action_remove_bot", NoInput, None),
                       Action("leave_game", "_action_leave_game", NoInput, None) >>],
       [name |-> "options",
        actions |-> << Action("set_rounds", "_action_set_option", MenuInput, None) >>],
       [name |-> "standard",
        actions |-> << Action("peek", "_action_peek", NoInput, None),
                       Action("poke", "_action_poke", EditboxInput, None) >>] >>

\* Game.player_action_sets
player_action_sets == [p \in Players |-> ActionSetsOf(p)]

\* Game.get_action_sets
get_action_sets(p) == player_action_sets[p]

\* the handler names that resolve on the game object (getattr(self, name));
\* _action_peek and _action_poke are declared by actions and not defined
Handlers == {"_action_roll", "_action_add_bot", "_action_remove_bot",
             "_action_leave_game", "_action_set_option"}

RECURSIVE Flatten(_)
Flatten(sets) ==
    IF sets = <<>> THEN <<>> ELSE Head(sets).actions \o Flatten(Tail(sets))

\* every action of a player, in menu order
AllActions(p) == Flatten(get_action_sets(p))

ActionIds == {AllActions("p1")[i].id : i \in 1..Len(AllActions("p1"))}

\* ActionSet.get_action
get_action(set, action_id) ==
    LET hit == {i \in 1..Len(set.actions) : set.actions[i].id = action_id}
    IN  IF hit = {} THEN NoAction
        ELSE set.actions[CHOOSE i \in hit : \A j \in hit : i <= j]

RECURSIVE FindIn(_, _)
FindIn(sets, action_id) ==
    IF sets = <<>> THEN NoAction
    ELSE IF get_action(Head(sets), action_id) # NoAction
         THEN get_action(Head(sets), action_id)
         ELSE FindIn(Tail(sets), action_id)

\* Game.find_action
find_action(p, action_id) == FindIn(get_action_sets(p), action_id)

\* ActionSet.resolve_action: the predicates evaluated against the game state g
SetResolveAction(g, p, action) ==
    [action |-> action,
     label |-> action.label,
     enabled |-> action.id \notin g.off,
     disabled_reason |-> IF action.id \notin g.off THEN None ELSE action.reason,
     visible |-> action.id \notin g.hid]

\* variant of resolve_action: an action found in no set resolves as disabled and
\* hidden
resolve_action_NoFallback(g, p, action) ==
    IF \E i \in 1..Len(get_action_sets(p)) :
            get_action(get_action_sets(p)[i], action.id) # NoAction
    THEN SetResolveAction(g, p, action)
    ELSE [action |-> action, label |-> action.label, enabled |-> FALSE,
          disabled_reason |-> None, visible |-> FALSE]

\* Game.resolve_action
resolve_action(g, p, action) ==
    IF \E i \in 1..Len(get_action_sets(p)) :
            get_action(get_action_sets(p)[i], action.id) # NoAction
    THEN SetResolveAction(g, p, action)
    ELSE [action |-> action, label |-> action.label, enabled |-> TRUE,
          disabled_reason |-> None, visible |-> TRUE]

RECURSIVE FilterVisible(_, _, _)
FilterVisible(g, p, acts) ==
    IF acts = <<>> THEN <<>>
    ELSE LET r == SetResolveAction(g, p, Head(acts))
         IN  (IF r.visible THEN <<r>> ELSE <<>>) \o FilterVisible(g, p, Tail(acts))

\* ActionSet.get_visible_actions
get_visible_actions(g, p, set) == FilterVisible(g, p, set.actions)

RECURSIVE VisibleOver(_, _, _)
VisibleOver(g, p, sets) ==
    IF sets = <<>> THEN <<>>
    ELSE get_visible_actions(g, p, Head(sets)) \o VisibleOver(g, p, Tail(sets))

\* variant of get_all_visible_actions: the result is overwritten, not extended,
\* by each action set
get_all_visible_actions_LastSet(g, p) ==
    get_visible_actions(g, p, get_action_sets(p)[Len(get_action_sets(p))])

\* Game.get_all_visible_actions
get_all_visible_actions(g, p) == VisibleOver(g, p, get_action_sets(p))

----------------------------------------------------------------------------
(* Execution pipeline.  m is the game object while one call is processed:  *)
(* the fields of the state plus the log of what the call did so far.       *)

\* a log entry: what was done (k), for which player, on what (a), with which value,
\* the flags the predicates read at that moment, and the contexts and pending
\* actions stored then
Entry(k, p, a, v, m) ==
    [k |-> k, p |-> p, a |-> a, v |-> v, off |-> m.off, hid |-> m.hid,
     ctx |-> m.action_context, pending |-> m.pending]

Logged(m, k, p, a, v) == [m EXCEPT !.log = Append(@, Entry(k, p, a, v, m))]

\* User.speak_l
speak_l(m, p, msg) == Logged(m, "speak", p, msg, None)

\* Game.rebuild_all_menus
rebuild_all_menus(m) == Logged(m, "rebuild_all_menus", None, None, None)

\* Game.rebuild_player_menu
rebuild_player_menu(m, p) == Logged(m, "rebuild_player_menu", p, None, None)

\* ActionContext: menu_index 0 stands for no index (indices are 1-based)
ActionContext(menu_item_id, menu_index, from_keybind) ==
    [present |-> TRUE, menu_item_id |-> menu_item_id, menu_index |-> menu_index,
     from_keybind |-> from_keybind]

\* ActionContext()
DefaultContext == ActionContext(None, 0, FALSE)

\* no context: the context argument None, and no entry in _action_context
NoContext == [present |-> FALSE, menu_item_id |-> None, menu_index |-> 0,
              from_keybind |-> FALSE]

\* the choices of the declarative option behind set_rounds
OptionChoices == <<"opt1", "opt2">>

\* OptionMeta.validate_and_convert: a value that is no choice is refused
validate_and_convert(value) == \E i \in 1..Len(OptionChoices) : OptionChoices[i] = value

\* Game._get_menu_options_for_action; no list (None) is the empty list here,
\* every caller tests the result with "not options"
_get_menu_options_for_action(m, action, p) ==
    IF action.input_request # MenuInput THEN <<>>
    ELSE IF m.noOptions THEN <<>> ELSE OptionChoices

\* variant of _handle_option_change: the value is assigned without validation
_handle_option_change_Unvalidated(m, value) ==
    rebuild_all_menus(Logged(m, "setattr", None, "rounds", value))

\* Game._handle_option_change
_handle_option_change(m, value) ==
    IF ~validate_and_convert(value) THEN m
    ELSE rebuild_all_menus(Logged(m, "setattr", None, "rounds", value))

\* Game.get_action_context, read from the contexts stored at some moment
get_action_context(stored, p) ==
    IF stored[p].present THEN stored[p] ELSE DefaultContext

RECURSIVE execute_action(_, _, _, _, _, _)

\* the handler bodies; endTurn is the outcome of the rules code behind roll,
\* m.raises tells whether the handler raises an exception instead of returning,
\* and m.nests names the action a handler executes for its own player before it
\* reads its context (None: the handler executes nothing)
RunHandler(m, p, action, value, endTurn) ==
    IF m.raises THEN Logged(m, "raise", p, action.id, None)
    ELSE IF m.nests # None
    THEN LET inner == execute_action([m EXCEPT !.nests = None], p, m.nests, None,
                                     NoContext, FALSE)
         IN  Logged([inner EXCEPT !.nests = m.nests], "get_action_context", p,
                    action.id, None)
    ELSE IF action.handler = "_action_set_option" THEN _handle_option_change(m, value)
    ELSE IF action.handler = "_action_roll" /\ endTurn
         THEN [m EXCEPT !.off = @ \cup {"roll"}]
         ELSE m

\* variant of execute_action from the handler lookup on: the context is popped
\* after the handler returned, not in a finally clause
InvokeHandler_NoFinally(m, p, action, input_value, context, endTurn) ==
    IF action.handler \notin Handlers THEN m
    ELSE LET passed == IF action.input_request # NoInput /\ input_value # None
                       THEN input_value ELSE None
             m1 == [m EXCEPT !.action_context[p] =
                        IF context = NoContext THEN DefaultContext ELSE context]
             m2 == Logged(m1, "handler", p, action.id, passed)
             m3 == RunHandler(m2, p, action, passed, endTurn)
         IN  IF m.raises THEN m3 ELSE [m3 EXCEPT !.action_context[p] = NoContext]

\* variant of execute_action from the handler lookup on: the handler name is
\* called without the check that it resolves on the game
InvokeHandler_Unchecked(m, p, action, input_value, context, endTurn) ==
    LET passed == IF action.input_request # NoInput /\ input_value # None
                  THEN input_value ELSE None
        m1 == [m EXCEPT !.action_context[p] =
                   IF context = NoContext THEN DefaultContext ELSE context]
        m2 == Logged(m1, "handler", p, action.id, passed)
        m3 == RunHandler(m2, p, action, passed, endTurn)
    IN  [m3 EXCEPT !.action_context[p] = NoContext]

\* Game.execute_action, from the handler lookup on
InvokeHandler(m, p, action, input_value, context, endTurn) ==
    IF action.handler \notin Handlers THEN m
    ELSE LET passed == IF action.input_request # NoInput /\ input_value # None
                       THEN input_value ELSE None
             m1 == [m EXCEPT !.action_context[p] =
                        IF context = NoContext THEN DefaultContext ELSE context]
             m2 == Logged(m1, "handler", p, action.id, passed)
             m3 == RunHandler(m2, p, action, passed, endTurn)
         IN  [m3 EXCEPT !.action_context[p] = NoContext]

\* Game._get_bot_input
_get_bot_input(m, action, p) ==
    IF action.input_request = MenuInput
    THEN LET options == _get_menu_options_for_action(m, action, p)
         IN  IF options = <<>> THEN None ELSE options[1]
    ELSE IF action.input_request = EditboxInput
         THEN (IF action.id = "add_bot" THEN "botname" ELSE "")
         ELSE None

\* variant of _request_action_input: the prompt is shown, nothing is recorded
_request_action_input_Unrecorded(m, action, p) ==
    IF get_user(p) = None THEN m
    ELSE IF action.input_request = MenuInput
         THEN Logged(m, "show_menu", p, "action_input_menu", None)
         ELSE Logged(m, "show_editbox", p, "action_input_editbox", None)

\* Game._request_action_input
_request_action_input(m, action, p) ==
    IF get_user(p) = None THEN m
    ELSE LET m1 == [m EXCEPT !.pending[p] = action.id]
         IN  IF action.input_request = MenuInput
             THEN IF _get_menu_options_for_action(m1, action, p) = <<>>
                  THEN speak_l([m1 EXCEPT !.pending[p] = None], p, "no-options-available")
                  ELSE Logged(m1, "show_menu", p, "action_input_menu", None)
             ELSE IF action.input_request = EditboxInput
                  THEN Logged(m1, "show_editbox", p, "action_input_editbox", None)
                  ELSE m1

\* variant of ExecuteEnabled: the bot's temporary pending record is removed after
\* the handler has run
ExecuteEnabled_LateCleanup(m, p, action, input_value, context, endTurn) ==
    IF action.input_request # NoInput /\ input_value = None
    THEN IF is_bot(p)
         THEN LET m1 == [m EXCEPT !.pending[p] = action.id]
                  v == _get_bot_input(m1, action, p)
              IN  IF v = None THEN [m1 EXCEPT !.pending[p] = None]
                  ELSE [InvokeHandler(m1, p, action, v, context, endTurn)
                            EXCEPT !.pending[p] = None]
         ELSE _request_action_input(m, action, p)
    ELSE InvokeHandler(m, p, action, input_value, context, endTurn)

\* Game.execute_action, once the action is found and resolves as enabled
ExecuteEnabled(m, p, action, input_value, context, endTurn) ==
    IF action.input_request # NoInput /\ input_value = None
    THEN IF is_bot(p)
         THEN LET v == _get_bot_input([m EXCEPT !.pending[p] = action.id], action, p)
                  m1 == [m EXCEPT !.pending[p] = None]
              IN  IF v = None THEN m1
                  ELSE InvokeHandler(m1, p, action, v, context, endTurn)
         ELSE _request_action_input(m, action, p)
    ELSE InvokeHandler(m, p, action, input_value, context, endTurn)

\* variant of ExecuteFound: the enabled check is skipped
ExecuteFound_Unchecked(m, p, action, input_value, context, endTurn) ==
    ExecuteEnabled(m, p, action, input_value, context, endTurn)

\* variant of ExecuteFound: an action refused with a value in hand is made
\* pending again
ExecuteFound_Requeued(m, p, action, input_value, context, endTurn) ==
    LET resolved == resolve_action(m, p, action)
    IN  IF ~resolved.enabled
        THEN LET m1 == IF input_value # None THEN [m EXCEPT !.pending[p] = action.id]
                       ELSE m
             IN  IF resolved.disabled_reason # None /\ get_user(p) # None
                 THEN speak_l(m1, p, resolved.disabled_reason)
                 ELSE m1
        ELSE ExecuteEnabled(m, p, action, input_value, context, endTurn)

\* Game.execute_action, after the action was found
ExecuteFound(m, p, action, input_value, context, endTurn) ==
    LET resolved == resolve_action(m, p, action)
    IN  IF ~resolved.enabled
        THEN IF resolved.disabled_reason # None /\ get_user(p) # None
             THEN speak_l(m, p, resolved.disabled_reason)
             ELSE m
        ELSE ExecuteEnabled(m, p, action, input_value, context, endTurn)

\* Game.execute_action; the call itself is entered in the log
execute_action(m, p, action_id, input_value, context, endTurn) ==
    LET action == find_action(p, action_id)
        called == Logged(m, "execute_action", p, action_id, input_value)
    IN  IF action = NoAction THEN called
        ELSE ExecuteFound(called, p, action, input_value, context, endTurn)

----------------------------------------------------------------------------
(* Keybind registry.  A key string is the sequence of its parts: the       *)
(* modifier prefixes "shift+", "ctrl+", "alt+" and then the key name, so   *)
(* that "shift+b" is <<"shift+", "b">> and str.startswith tests the head.  *)

NEVER == "never"
IDLE == "idle"
ACTIVE == "active"
ALWAYS == "always"

Keybind(name, key, actions, requires_focus, state, players, include_spectators) ==
    [name |-> name, default_key |-> key, actions |-> actions,
     requires_focus |-> requires_focus, state |-> state, players |-> players,
     include_spectators |-> include_spectators]

\* Game.define_keybind
define_keybind(kb, key, name, actions, requires_focus, state, players, include_spectators) ==
    LET keybind == Keybind(name, key, actions, requires_focus, state, players,
                           include_spectators)
    IN  IF key \in DOMAIN kb
        THEN [kb EXCEPT ![key] = Append(@, keybind)]
        ELSE kb @@ (key :> <<keybind>>)

\* Game.setup_keybinds, the bindings of the actions above, followed by the
\* bindings a game adds in its own setup_keybinds
_keybinds ==
    LET k0 == <<>>
        k1 == define_keybind(k0, <<"b">>, "Add bot", <<"add_bot">>, FALSE, IDLE, {}, FALSE)
        k2 == define_keybind(k1, <<"shift+", "b">>, "Remove bot", <<"remove_bot">>,
                             FALSE, IDLE, {}, FALSE)
        k3 == define_keybind(k2, <<"q">>, "Leave table", <<"leave_game">>,
                             FALSE, ALWAYS, {}, TRUE)
        k4 == define_keybind(k3, <<"r">>, "Roll", <<"roll">>, FALSE, ACTIVE, {}, FALSE)
        k5 == define_keybind(k4, <<"r">>, "Rounds", <<"set_rounds", "peek">>,
                             FALSE, IDLE, {"p1"}, FALSE)
        k6 == define_keybind(k5, <<"r">>, "Roll focused", <<"roll", "peek">>,
                             TRUE, ALWAYS, {}, FALSE)
    IN  k6

\* str.lower on the key name
Lower(part) == IF part = "B" THEN "b" ELSE part

\* str.lower
lower(key) == [i \in DOMAIN key |-> Lower(key[i])]

\* str.startswith for a modifier prefix
startswith(key, prefix) == Len(key) > 0 /\ key[1] = prefix

\* variant of CanonicalKey: the shift flag is not folded into the key
CanonicalKey_ShiftDropped(event) ==
    LET k0 == lower(event.key)
        k2 == IF event.control /\ ~startswith(k0, "ctrl+") THEN <<"ctrl+">> \o k0 ELSE k0
        k3 == IF event.alt /\ ~startswith(k2, "alt+") THEN <<"alt+">> \o k2 ELSE k2
    IN  k3

\* Game.handle_event, keybind branch: the full key string of the event
CanonicalKey(event) ==
    LET k0 == lower(event.key)
        k1 == IF event.shift /\ ~startswith(k0, "shift+") THEN <<"shift+">> \o k0 ELSE k0
        k2 == IF event.control /\ ~startswith(k1, "ctrl+") THEN <<"ctrl+">> \o k1 ELSE k1
        k3 == IF event.alt /\ ~startswith(k2, "alt+") THEN <<"alt+">> \o k2 ELSE k2
    IN  k3

\* Keybind.can_player_use
can_player_use(keybind, m, p, is_spectator) ==
    /\ keybind.state # NEVER
    /\ keybind.state = IDLE => m.status # "playing"
    /\ keybind.state = ACTIVE => m.status = "playing"
    /\ keybind.players # {} => p \in keybind.players
    /\ is_spectator => keybind.include_spectators

InSeq(x, seq) == \E i \in 1..Len(seq) : seq[i] = x

----------------------------------------------------------------------------
(* Event dispatcher *)

\* Game.handle_event, keybind branch: the loop over one binding's action ids
RECURSIVE KeybindActions(_, _, _, _, _)
KeybindActions(st, p, action_ids, context, endTurn) ==
    IF action_ids = <<>> THEN st
    ELSE LET action_id == Head(action_ids)
             action == find_action(p, action_id)
             resolved == resolve_action(st.m, p, action)
             next ==
                 IF action = NoAction THEN st
                 ELSE IF resolved.enabled
                      THEN [m |-> execute_action(st.m, p, action_id, None, context, endTurn),
                            executed_any |-> TRUE]
                      ELSE IF resolved.disabled_reason # None /\ get_user(p) # None
                           THEN [st EXCEPT !.m = speak_l(@, p, resolved.disabled_reason)]
                           ELSE st
         IN  KeybindActions(next, p, Tail(action_ids), context, endTurn)

\* variant of KeybindLoop: the loop ends after the first binding that applies
KeybindLoop_FirstOnly(st, p, keybinds, event, context, endTurn) ==
    LET usable == {i \in 1..Len(keybinds) :
                     /\ can_player_use(keybinds[i], st.m, p, _is_player_spectator(p))
                     /\ keybinds[i].requires_focus
                        => InSeq(event.menu_item_id, keybinds[i].actions)}
    IN  IF usable = {} THEN st
        ELSE LET first == CHOOSE i \in usable : \A j \in usable : i <= j
             IN  KeybindActions(st, p, keybinds[first].actions, context, endTurn)

\* variant of KeybindLoop: can_player_use is not consulted
RECURSIVE KeybindLoop_Unfiltered(_, _, _, _, _, _)
KeybindLoop_Unfiltered(st, p, keybinds, event, context, endTurn) ==
    IF keybinds = <<>> THEN st
    ELSE LET keybind == Head(keybinds)
             next ==
                 IF keybind.requires_focus
                    /\ ~InSeq(event.menu_item_id, keybind.actions) THEN st
                 ELSE KeybindActions(st, p, keybind.actions, context, endTurn)
         IN  KeybindLoop_Unfiltered(next, p, Tail(keybinds), event, context, endTurn)

\* variant of KeybindLoop: requires_focus is not consulted
RECURSIVE KeybindLoop_FocusIgnored(_, _, _, _, _, _)
KeybindLoop_FocusIgnored(st, p, keybinds, event, context, endTurn) ==
    IF keybinds = <<>> THEN st
    ELSE LET keybind == Head(keybinds)
             next ==
                 IF ~can_player_use(keybind, st.m, p, _is_player_spectator(p)) THEN st
                 ELSE KeybindActions(st, p, keybind.actions, context, endTurn)
         IN  KeybindLoop_FocusIgnored(next, p, Tail(keybinds), event, context, endTurn)

\* Game.handle_event, keybind branch: the loop over the bindings of the key
RECURSIVE KeybindLoop(_, _, _, _, _, _)
KeybindLoop(st, p, keybinds, event, context, endTurn) ==
    IF keybinds = <<>> THEN st
    ELSE LET keybind == Head(keybinds)
             next ==
                 IF ~can_player_use(keybind, st.m, p, _is_player_spectator(p)) THEN st
                 ELSE IF keybind.requires_focus
                         /\ ~InSeq(event.menu_item_id, keybind.actions) THEN st
                 ELSE KeybindActions(st, p, keybind.actions, context, endTurn)
         IN  KeybindLoop(next, p, Tail(keybinds), event, context, endTurn)

\* variant of HandleKeybind: the menus are rebuilt whenever an action executed
HandleKeybind_RebuildIfExecuted(m, p, event, endTurn) ==
    LET key == CanonicalKey(event)
    IN  IF key \notin DOMAIN _keybinds THEN m
        ELSE LET context == ActionContext(event.menu_item_id, event.menu_index, TRUE)
                 st == KeybindLoop([m |-> m, executed_any |-> FALSE], p,
                                   _keybinds[key], event, context, endTurn)
             IN  IF st.executed_any THEN rebuild_all_menus(st.m) ELSE st.m

\* Game.handle_event, keybind branch
HandleKeybind(m, p, event, endTurn) ==
    LET key == CanonicalKey(event)
    IN  IF key \notin DOMAIN _keybinds THEN m
        ELSE LET context == ActionContext(event.menu_item_id, event.menu_index, TRUE)
                 st == KeybindLoop([m |-> m, executed_any |-> FALSE], p,
                                   _keybinds[key], event, context, endTurn)
             IN  IF /\ st.executed_any
                    /\ st.m.pending[p] = None
                    /\ p \notin st.m.status_box_open
                    /\ p \notin st.m.actions_menu_open
                 THEN rebuild_all_menus(st.m)
                 ELSE st.m

\* variant of _handle_actions_menu_selection: go_back is handled as any other id
_handle_actions_menu_selection_NoSentinel(m, p, action_id, endTurn) ==
    LET m1 == [m EXCEPT !.actions_menu_open = @ \ {p}]
        action == find_action(p, action_id)
        m2 == IF action # NoAction /\ resolve_action(m1, p, action).enabled
              THEN execute_action(m1, p, action_id, None, NoContext, endTurn)
              ELSE m1
    IN  IF m2.pending[p] = None THEN rebuild_player_menu(m2, p) ELSE m2

\* Game._handle_actions_menu_selection
_handle_actions_menu_selection(m, p, action_id, endTurn) ==
    LET m1 == [m EXCEPT !.actions_menu_open = @ \ {p}]
    IN  IF action_id = "go_back" THEN rebuild_player_menu(m1, p)
        ELSE LET action == find_action(p, action_id)
                 m2 == IF action # NoAction /\ resolve_action(m1, p, action).enabled
                       THEN execute_action(m1, p, action_id, None, NoContext, endTurn)
                       ELSE m1
             IN  IF m2.pending[p] = None THEN rebuild_player_menu(m2, p) ELSE m2

\* variant of RebuildUnlessPending: the menus are rebuilt in every case
RebuildUnlessPending_Always(m, p) == rebuild_all_menus(m)

\* Game.handle_event, turn_menu branch: "Don't rebuild if action is waiting for input"
RebuildUnlessPending(m, p) ==
    IF m.pending[p] = None THEN rebuild_all_menus(m) ELSE m

\* variant of ActionById: the id is not looked up, the index decides
ActionById_Ignored(p, selection_id) == NoAction

\* Game.handle_event, turn_menu branch: the action the selection id names
ActionById(p, selection_id) ==
    IF selection_id # "" THEN find_action(p, selection_id) ELSE NoAction

\* Game.handle_event, turn_menu branch
HandleTurnMenu(m, p, event, endTurn) ==
    LET m1 == [m EXCEPT !.actions_menu_open = @ \ {p}]
        selection_id == event.selection_id
        action == ActionById(p, selection_id)
    IN  IF action # NoAction
        THEN IF resolve_action(m1, p, action).enabled
             THEN RebuildUnlessPending(
                      execute_action(m1, p, selection_id, None, NoContext, endTurn), p)
             ELSE m1
        ELSE LET selection == event.selection - 1
                 visible == get_all_visible_actions(m1, p)
             IN  IF 0 <= selection /\ selection < Len(visible)
                 THEN LET resolved == visible[selection + 1]
                      IN  RebuildUnlessPending(
                              execute_action(m1, p, resolved.action.id, None,
                                             NoContext, endTurn), p)
                 ELSE m1

\* variant of the status_box branch: the open flag is left as it is
HandleStatusBox_FlagKept(m, p) ==
    IF get_user(p) = None THEN m
    ELSE LET m1 == Logged(m, "remove_menu", p, "status_box", None)
             m2 == speak_l(m1, p, "status-box-closed")
         IN  rebuild_player_menu(m2, p)

\* Game.handle_event, status_box branch
HandleStatusBox(m, p) ==
    IF get_user(p) = None THEN m
    ELSE LET m1 == Logged(m, "remove_menu", p, "status_box", None)
             m2 == speak_l(m1, p, "status-box-closed")
         IN  rebuild_player_menu([m2 EXCEPT !.status_box_open = @ \ {p}], p)

\* variant of IsCancel: the sentinel is misspelt
IsCancel_Misspelt(selection_id) == selection_id = "cancel"

\* Game.handle_event, action_input_menu branch: the cancel sentinel
IsCancel(selection_id) == selection_id = "_cancel"

\* Game.handle_event, action_input_menu branch
HandleActionInputMenu(m, p, event, endTurn) ==
    LET m1 == IF m.pending[p] # None
              THEN LET action_id == m.pending[p]
                       popped == [m EXCEPT !.pending[p] = None]
                   IN  IF ~IsCancel(event.selection_id)
                       THEN execute_action(popped, p, action_id, event.selection_id,
                                           NoContext, endTurn)
                       ELSE popped
              ELSE m
    IN  rebuild_player_menu(m1, p)

\* variant of HasText: every submitted text counts as input
HasText_Any(text) == TRUE

\* Game.handle_event, editbox branch: "if text" (non-empty input)
HasText(text) == text # ""

\* Game.handle_event, editbox branch
HandleEditbox(m, p, event, endTurn) ==
    IF event.input_id # "action_input_editbox" THEN m
    ELSE LET m1 == IF m.pending[p] # None
                   THEN LET action_id == m.pending[p]
                            popped == [m EXCEPT !.pending[p] = None]
                        IN  IF HasText(event.text)
                            THEN execute_action(popped, p, action_id, event.text,
                                                NoContext, endTurn)
                            ELSE popped
                   ELSE m
         IN  rebuild_player_menu(m1, p)

\* Game.handle_event
handle_event(m, p, event, endTurn) ==
    IF event.type = "menu"
    THEN IF event.menu_id = "turn_menu" THEN HandleTurnMenu(m, p, event, endTurn)
         ELSE IF event.menu_id = "actions_menu"
              THEN IF event.selection_id # ""
                   THEN _handle_actions_menu_selection(m, p, event.selection_id, endTurn)
                   ELSE m
         ELSE IF event.menu_id = "status_box" THEN HandleStatusBox(m, p)
         ELSE IF event.menu_id = "game_over"
              THEN execute_action(m, p, "leave_game", None, NoContext, endTurn)
         ELSE IF event.menu_id = "action_input_menu"
              THEN HandleActionInputMenu(m, p, event, endTurn)
         ELSE m
    ELSE IF event.type = "editbox" THEN HandleEditbox(m, p, event, endTurn)
    ELSE IF event.type = "keybind" THEN HandleKeybind(m, p, event, endTurn)
    ELSE m

----------------------------------------------------------------------------
(* Turn-order manager.  The turn state is the record of the four turn      *)
(* fields of the game; every operation maps a turn state to a turn state.  *)

\* Game.players of the table the turn order runs on, in seat order
players == <<"p1", "p2", "p3", "p4">>

\* Game.get_player_by_id
get_player_by_id(player_id) ==
    LET found == {i \in DOMAIN players : players[i] = player_id}
    IN  IF found = {} THEN None
        ELSE players[CHOOSE i \in found : \A j \in found : i <= j]

\* the turn fields of the game
TurnState ==
    [turn_index |-> turn_index, turn_direction |-> turn_direction,
     turn_skip_count |-> turn_skip_count, turn_player_ids |-> turn_player_ids]

TurnOp(op, arg) == [op |-> op, arg |-> arg]

NoTurnOp == TurnOp("none", None)

\* list.index: the 0-based position of the first occurrence
index(ids, x) == (CHOOSE i \in DOMAIN ids : ids[i] = x /\ \A j \in 1..(i - 1) : ids[j] # x) - 1

\* variant of current_player: an index past the end is clamped to the last entry
current_player_Clamped(t) ==
    IF t.turn_player_ids = <<>> THEN None
    ELSE LET n == Len(t.turn_player_ids)
             i == IF t.turn_index >= n THEN n - 1 ELSE t.turn_index
         IN  get_player_by_id(t.turn_player_ids[i + 1])

\* Game.current_player (getter)
current_player(t) ==
    IF t.turn_player_ids = <<>> THEN None
    ELSE LET i == t.turn_index % Len(t.turn_player_ids)
             player_id == t.turn_player_ids[i + 1]
         IN  get_player_by_id(player_id)

\* variant of set_current_player: a player outside the turn order resets the index
set_current_player_Reset(t, player) ==
    IF player = None THEN t
    ELSE IF ~InSeq(player, t.turn_player_ids) THEN [t EXCEPT !.turn_index = 0]
    ELSE [t EXCEPT !.turn_index = index(t.turn_player_ids, player)]

\* Game.current_player (setter)
set_current_player(t, player) ==
    IF player = None \/ ~InSeq(player, t.turn_player_ids) THEN t
    ELSE [t EXCEPT !.turn_index = index(t.turn_player_ids, player)]

\* one step of the turn pointer in the current direction
StepTurn(t) ==
    [t EXCEPT !.turn_index = (@ + t.turn_direction) % Len(t.turn_player_ids)]

\* the further steps of an advance, one for each pending skip
RECURSIVE SkipSteps(_)
SkipSteps(t) ==
    IF t.turn_skip_count = 0 THEN t
    ELSE SkipSteps([StepTurn(t) EXCEPT !.turn_skip_count = @ - 1])

\* variant of advance_turn: pending skips are dropped without moving
advance_turn_SkipsDropped(t) ==
    IF t.turn_player_ids = <<>> THEN [t EXCEPT !.turn_skip_count = 0]
    ELSE [StepTurn(t) EXCEPT !.turn_skip_count = 0]

\* advance_turn of the turn management mixin
advance_turn(t) ==
    IF t.turn_player_ids = <<>> THEN [t EXCEPT !.turn_skip_count = 0]
    ELSE [SkipSteps(StepTurn(t)) EXCEPT !.turn_skip_count = 0]

\* Game.end_turn
end_turn(t) == advance_turn(t)

\* skip_next_players of the turn management mixin, for one player
skip_next_players(t) == [t EXCEPT !.turn_skip_count = @ + 1]

\* reverse_turn_direction of the turn management mixin
reverse_turn_direction(t) == [t EXCEPT !.turn_direction = -@]

\* a player joining the turn order late: the id is appended
add_turn_player(t, player_id) == [t EXCEPT !.turn_player_ids = Append(@, player_id)]

\* a player removed from the turn order: the id is taken out, the index stays
remove_turn_player(t, player_id) ==
    [t EXCEPT !.turn_player_ids = SelectSeq(@, LAMBDA y : y # player_id)]

----------------------------------------------------------------------------
(* Duration estimation.  The estimation state is the record of the five    *)
(* _estimate fields of the game and the report last handed to the engine.  *)
(* A worker is a thread of the run: it plays one simulated game out, takes *)
(* the lock, appends its outcome to the results or to the errors, releases *)
(* the lock and ends.  The worker that made a step is recorded only for    *)
(* the steps of the workers.                                               *)

Estimate(threads, results, errors, running, lock, report) ==
    [threads |-> threads, results |-> results, errors |-> errors,
     running |-> running, lock |-> lock, report |-> report]

EstimateStep(op, who) == [op |-> op, who |-> who]

Report(kind, runs, total) == [kind |-> kind, runs |-> runs, total |-> total]

NoReport == Report("none", 0, 0)

\* the estimation fields of the game
EstimateState ==
    Estimate(_estimate_threads, _estimate_results, _estimate_errors,
             _estimate_running, _estimate_lock, estimate_report)

\* the value of estimate_pre while no start or poll is recorded
NoEstimate == Estimate(<<>>, <<>>, <<>>, FALSE, 0, NoReport)

\* a worker thread: where it stands, the outcome of its playout and the list it
\* read for its append
Thread(pc, outcome, seen) == [pc |-> pc, outcome |-> outcome, seen |-> seen]

Outcome(kind, ticks) == [kind |-> kind, ticks |-> ticks]

NoOutcome == Outcome("none", 0)

\* how a simulated playout ends: it completes, it hits the tick ceiling, it raises
Outcomes == {Outcome("ticks", 1), Outcome("ticks", TickCeiling), Outcome("error", 0)}

\* Thread.is_alive
is_alive(thread) == thread.pc # "done"

\* variant of start_estimate: a start always begins a new run
start_estimate_Restart(e, n) ==
    [e EXCEPT !.threads = [i \in 1..n |-> Thread("run", NoOutcome, <<>>)],
              !.results = <<>>,
              !.errors = <<>>,
              !.lock = 0,
              !.running = TRUE]

\* startEstimate(n): the start of an estimation run
start_estimate(e, n) ==
    IF e.running THEN e
    ELSE [e EXCEPT !.threads = [i \in 1..n |-> Thread("run", NoOutcome, <<>>)],
                   !.results = <<>>,
                   !.errors = <<>>,
                   !.running = TRUE]

\* a worker's playout ends with an outcome
run_simulation(e, i, outcome) ==
    [e EXCEPT !.threads[i] = Thread("acquire", outcome, <<>>)]

\* variant of acquire: the worker goes on whoever holds the lock
acquire_Unguarded(e, i) ==
    [e EXCEPT !.threads[i].pc = "read", !.lock = i]

\* with self._estimate_lock: the worker takes the free lock
acquire(e, i) ==
    IF e.lock # 0 THEN e
    ELSE [e EXCEPT !.threads[i].pc = "read", !.lock = i]

\* the list the outcome of a worker goes to
Target(e, i) == IF e.threads[i].outcome.kind = "error" THEN e.errors ELSE e.results

\* the append, first half: the worker reads the list
append_read(e, i) ==
    [e EXCEPT !.threads[i].pc = "write", !.threads[i].seen = Target(e, i)]

\* variant of release: the thread ends without giving the lock back
release_LockKept(e, i) ==
    [e EXCEPT !.threads[i].pc = "done",
              !.threads[i].seen = <<>>]

\* the end of the with block and of the thread
release(e, i) ==
    [e EXCEPT !.threads[i].pc = "done",
              !.threads[i].seen = <<>>,
              !.lock = IF @ = i THEN 0 ELSE @]

\* the append, second half: the worker stores the list with its entry added, leaves
\* the with block and ends
append_write(e, i) ==
    LET thread == e.threads[i]
    IN  IF thread.outcome.kind = "error"
        THEN release([e EXCEPT !.errors = Append(thread.seen, "error")], i)
        ELSE release([e EXCEPT !.results = Append(thread.seen, thread.outcome.ticks)], i)

RECURSIVE Sum(_)
Sum(seq) == IF seq = <<>> THEN 0 ELSE Head(seq) + Sum(Tail(seq))

\* variant of summarize: one failed run fails the whole estimate
summarize_AnyErrorFails(e) ==
    IF e.results # <<>> /\ e.errors = <<>>
    THEN Report("summary", Len(e.results), Sum(e.results))
    ELSE Report("failed", 0, 0)

\* variant of summarize: the summary is the tick count that came in first
summarize_FirstResult(e) ==
    IF e.results # <<>>
    THEN Report("summary", Len(e.results), Head(e.results) * Len(e.results))
    ELSE Report("failed", 0, 0)

\* the summary of a finished run: of the successful runs, or the failure of all
summarize(e) ==
    IF e.results # <<>>
    THEN Report("summary", Len(e.results), Sum(e.results))
    ELSE Report("failed", 0, 0)

\* variant of check_estimate_completion: the run is closed once a result is in
check_estimate_completion_Eager(e) ==
    IF ~e.running THEN e
    ELSE IF e.results = <<>> /\ e.errors = <<>> THEN e
    ELSE [e EXCEPT !.running = FALSE,
                   !.threads = <<>>,
                   !.report = summarize(e)]

\* check_estimate_completion, called by on_tick
check_estimate_completion(e) ==
    IF ~e.running THEN e
    ELSE IF \E i \in DOMAIN e.threads : is_alive(e.threads[i]) THEN e
    ELSE [e EXCEPT !.running = FALSE,
                   !.threads = <<>>,
                   !.report = summarize(e)]

----------------------------------------------------------------------------
(* Persistence.  A game is saved as the dictionary of its dataclass fields *)
(* and loaded by constructing the object from that dictionary, which runs  *)
(* __post_init__ and then rebuild_runtime_state.                            *)

\* the game object: the dataclass fields and the runtime attributes
GameObject ==
    [status |-> status, off |-> off, hid |-> hid, noOptions |-> noOptions,
     turn_index |-> turn_index, turn_direction |-> turn_direction,
     turn_skip_count |-> turn_skip_count, turn_player_ids |-> turn_player_ids,
     _pending_actions |-> pending, _action_context |-> action_context,
     _status_box_open |-> status_box_open, _actions_menu_open |-> actions_menu_open,
     _estimate_threads |-> _estimate_threads, _estimate_results |-> _estimate_results,
     _estimate_errors |-> _estimate_errors, _estimate_running |-> _estimate_running,
     _estimate_lock |-> _estimate_lock]

\* variant of to_dict: the skip count is left out of the dictionary
to_dict_SkipLeftOut(g) ==
    [status |-> g.status, off |-> g.off, hid |-> g.hid, noOptions |-> g.noOptions,
     turn_index |-> g.turn_index, turn_direction |-> g.turn_direction,
     turn_skip_count |-> 0, turn_player_ids |-> g.turn_player_ids]

\* DataClassJSONMixin.to_dict: the dataclass fields of the game, and no attribute
\* that __post_init__ creates
to_dict(g) ==
    [status |-> g.status, off |-> g.off, hid |-> g.hid, noOptions |-> g.noOptions,
     turn_index |-> g.turn_index, turn_direction |-> g.turn_direction,
     turn_skip_count |-> g.turn_skip_count, turn_player_ids |-> g.turn_player_ids]

\* Game.__post_init__ on the object constructed from the fields d; g is the object
\* the save was made of, of which nothing is read
__post_init__(d, g) ==
    [status |-> d.status, off |-> d.off, hid |-> d.hid, noOptions |-> d.noOptions,
     turn_index |-> d.turn_index, turn_direction |-> d.turn_direction,
     turn_skip_count |-> d.turn_skip_count, turn_player_ids |-> d.turn_player_ids,
     _pending_actions |-> [p \in Players |-> None],
     _action_context |-> [p \in Players |-> NoContext],
     _status_box_open |-> {}, _actions_menu_open |-> {},
     _estimate_threads |-> <<>>, _estimate_results |-> <<>>,
     _estimate_errors |-> <<>>, _estimate_running |-> FALSE,
     _estimate_lock |-> 0]

\* Game.rebuild_runtime_state
rebuild_runtime_state(g) == g

\* variant of from_dict: the estimation fields are taken over from the object the
\* dictionary was made of
from_dict_EstimateKept(d, g) ==
    [__post_init__(d, g) EXCEPT
        !._estimate_threads = g._estimate_threads,
        !._estimate_results = g._estimate_results,
        !._estimate_errors = g._estimate_errors,
        !._estimate_running = g._estimate_running,
        !._estimate_lock = g._estimate_lock]

\* DataClassJSONMixin.from_dict and the call that follows loading
from_dict(d, g) == rebuild_runtime_state(__post_init__(d, g))

\* the field defaults of the dataclass
Defaults ==
    [status |-> "waiting", off |-> {}, hid |-> {}, noOptions |-> FALSE,
     turn_index |-> 0, turn_direction |-> 1, turn_skip_count |-> 0,
     turn_player_ids |-> <<>>]

\* a game object as constructed
NewGame == __post_init__(Defaults, Defaults)

----------------------------------------------------------------------------
(* Events *)

Event(type, menu_id, selection_id, selection, input_id, text) ==
    [type |-> type, menu_id |-> menu_id, selection_id |-> selection_id,
     selection |-> selection, input_id |-> input_id, text |-> text,
     key |-> <<>>, shift |-> FALSE, control |-> FALSE, alt |-> FALSE,
     menu_item_id |-> None, menu_index |-> 0]

KeyEvent(key, shift, control, alt, menu_item_id, menu_index) ==
    [type |-> "keybind", menu_id |-> None, selection_id |-> "", selection |-> 1,
     input_id |-> "", text |-> "",
     key |-> key, shift |-> shift, control |-> control, alt |-> alt,
     menu_item_id |-> menu_item_id, menu_index |-> menu_index]

NoEvent == Event(None, None, "", 1, "", "")

\* selection ids that name an action of the player's sets
KnownIds == {"roll", "add_bot", "set_rounds", "peek", "poke"}

\* a selection id no action has (a menu item that no longer exists)
StaleId == "stale"

\* turn-menu events: by id (selection left at its default 1), and by index
TurnMenuEvents ==
    {Event("menu", "turn_menu", id, 1, "", "") : id \in KnownIds}
    \cup {Event("menu", "turn_menu", id, k, "", "") :
            id \in {"", StaleId}, k \in 0..MaxSelection}

ActionsMenuEvents ==
    {Event("menu", "actions_menu", id, 1, "", "") :
        id \in KnownIds \cup {"", StaleId, "go_back"}}

StatusBoxEvents == {Event("menu", "status_box", "", 1, "", "")}

GameOverEvents == {Event("menu", "game_over", id, 1, "", "") : id \in {"leave_game", ""}}

ActionInputMenuEvents ==
    {Event("menu", "action_input_menu", id, 1, "", "") :
        id \in {"_cancel", "", "opt1", "opt2", "bad"}}

EditboxEvents ==
    {Event("editbox", None, "", 1, "action_input_editbox", t) : t \in {"", "name"}}
    \cup {Event("editbox", None, "", 1, "other_editbox", "name")}

Keys == {<<"b">>, <<"B">>, <<"shift+", "b">>, <<"q">>, <<"r">>}

KeybindEvents ==
    {KeyEvent(k, sh, ct, FALSE, None, 0) : k \in Keys, sh \in BOOLEAN, ct \in BOOLEAN}
    \cup {KeyEvent(<<"r">>, FALSE, FALSE, al, "roll", 1) : al \in BOOLEAN}
    \cup {KeyEvent(<<"r">>, FALSE, FALSE, FALSE, "add_bot", 2)}

\* the events a player sends; p3 has no user, hence no menu to answer, and
\* sends key presses and selections by id
EventsOf(p) ==
    IF get_user(p) # None
    THEN TurnMenuEvents \cup ActionsMenuEvents \cup StatusBoxEvents \cup GameOverEvents
         \cup ActionInputMenuEvents \cup EditboxEvents \cup KeybindEvents
    ELSE KeybindEvents \cup {e \in TurnMenuEvents : e.selection_id \in KnownIds}
         \cup GameOverEvents

----------------------------------------------------------------------------
(* Language menu (core/ui/common_flows.py).  The module keeps, per          *)
(* username, the pair of callbacks of the language menu now shown to that   *)
(* user.  A selection id is the sequence of its parts: the prefix "lang_"   *)
(* followed by the language code, or one other word.                        *)

Usernames == {"alice", "bob"}

\* the callbacks a caller passes: a function of the caller, or None
Callbacks == {"first", "second", None}

\* an entry of _language_menu_callbacks: the tuple (on_select, on_back)
Pair(on_select, on_back) == [present |-> TRUE, on_select |-> on_select, on_back |-> on_back]

\* no entry for a username
NoPair == [present |-> FALSE, on_select |-> None, on_back |-> None]

\* what a callback does with the language menu: nothing (NoShow), or it shows
\* the menu again with a pair of its own
NoShow == [shows |-> FALSE, on_select |-> None, on_back |-> None]

Shows(on_select, on_back) == [shows |-> TRUE, on_select |-> on_select, on_back |-> on_back]

\* the module state while one call is processed
LanguageState(callbacks, warmup) ==
    [callbacks |-> callbacks, warmup |-> warmup, log |-> <<>>, result |-> None]

\* a log entry: what was called, for which user, with what, and the pair stored
\* for that user at that moment
LanguageLogged(l, k, user, a) ==
    [l EXCEPT !.log = Append(@, [k |-> k, user |-> user, a |-> a,
                                 stored |-> l.callbacks[user]])]

\* show_language_menu
show_language_menu(l, user, on_select, on_back) ==
    IF l.warmup
    THEN [LanguageLogged(l, "speak", user, "localization-in-progress-try-again")
             EXCEPT !.result = FALSE]
    ELSE LET l1 == [l EXCEPT !.callbacks[user] = Pair(on_select, on_back)]
         IN  [LanguageLogged(l1, "show_menu", user, "language_menu")
                 EXCEPT !.result = TRUE]

\* a callback being called: it is entered in the log, and it may show the
\* language menu again
CallBack(l, k, user, callback, arg, then) ==
    LET l1 == LanguageLogged(l, k, user, <<callback, arg>>)
    IN  IF then.shows THEN show_language_menu(l1, user, then.on_select, then.on_back)
        ELSE l1

\* handle_language_menu_selection, after the pair was taken
Dispatch(l, user, selection_id, pair, then) ==
    IF startswith(selection_id, "lang_")
    THEN LET lang_code == Tail(selection_id)
         IN  IF pair.on_select # None
             THEN CallBack(l, "on_select", user, pair.on_select, lang_code, then)
             ELSE l
    ELSE IF pair.on_back # None
         THEN CallBack(l, "on_back", user, pair.on_back, <<>>, then)
         ELSE l

\* variant of handle_language_menu_selection: the pair is removed after the
\* callback has run
handle_language_menu_selection_PopAfter(l, user, selection_id, then) ==
    LET l1 == Dispatch(l, user, selection_id, l.callbacks[user], then)
    IN  [l1 EXCEPT !.callbacks[user] = NoPair, !.result = None]

\* handle_language_menu_selection
handle_language_menu_selection(l, user, selection_id, then) ==
    LET pair == l.callbacks[user]
        popped == [l EXCEPT !.callbacks[user] = NoPair]
    IN  [Dispatch(popped, user, selection_id, pair, then) EXCEPT !.result = None]

\* the selection ids a client sends
LanguageSelections == {<<"lang_", "en">>, <<"lang_", "de">>, <<"lang_">>, <<"back">>, <<>>}

LanguageCall(op, user, selection_id, on_select, on_back, then) ==
    [op |-> op, user |-> user, selection_id |-> selection_id, on_select |-> on_select,
     on_back |-> on_back, then |-> then]

NoLanguageCall == LanguageCall("none", None, <<>>, None, None, NoShow)

----------------------------------------------------------------------------
(* Yahtzee bot (games/yahtzee/bot.py).  The dice of a player are the        *)
(* sequence of their five values; a die is named by its index from 0, as in *)
(* the action ids toggle_die_0 .. toggle_die_4.  The heuristic values the   *)
(* code computes as floats are kept exact: potentials in twentieths (the    *)
(* factors 0.35, 1.2 and 1.5 are 7, 24 and 30 twentieths), utilities in     *)
(* fifths (the factor 0.2 is one fifth).                                    *)

\* range(5): the indices of the dice
NumDice == 5

DieIndices == 0..(NumDice - 1)

Faces == 1..6

\* upper_categories, as the game passes them
upper_categories == <<"ones", "twos", "threes", "fours", "fives", "sixes">>

\* all_categories, as the game passes them: the score sheet from top to bottom
all_categories ==
    upper_categories \o <<"three_kind", "four_kind", "full_house", "small_straight",
                          "large_straight", "yahtzee", "chance">>

\* the state of the player and of the turn that bot_think reads
YahtzeePlayer(is_current, has_rolled, values, kept, rolls_left, open, yahtzee, total, awarded) ==
    [is_current |-> is_current, has_rolled |-> has_rolled, values |-> values,
     kept |-> kept, rolls_left |-> rolls_left, open |-> open, yahtzee |-> yahtzee,
     upper_total |-> total, upper_bonus_awarded |-> awarded]

\* what bot_think returns: roll, toggle_die_<die>, score_<category>, or None
BotAction(kind, die, category) == [kind |-> kind, die |-> die, category |-> category]

Roll == BotAction("roll", -1, None)

ToggleDie(i) == BotAction("toggle_die", i, None)

Score(cat) == BotAction("score", -1, cat)

\* bot_think returning None
NoBotAction == BotAction("none", -1, None)

\* game_utils.dice.count_dice: how often each face occurs
count_dice(values) ==
    [f \in Faces |-> Cardinality({i \in DOMAIN values : values[i] = f})]

\* max(counts.items(), key=lambda item: (item[1], item[0])): the face that occurs
\* most often, the highest of them
MostFrequent(counts) ==
    CHOOSE v \in DOMAIN counts :
        \A w \in DOMAIN counts :
            counts[w] < counts[v] \/ (counts[w] = counts[v] /\ w <= v)

\* sum(values)
SumOf(values) == Sum(values)

\* set(values)
ValueSet(values) == {values[i] : i \in DOMAIN values}

\* _upper_target_value
_upper_target_value(category) ==
    CHOOSE t \in Faces : upper_categories[t] = category

IsUpper(category) == \E t \in Faces : upper_categories[t] = category

\* the runs of consecutive faces within a set of faces, as <<start, length>>
RunsIn(faces) ==
    {r \in Faces \X Faces : \A k \in 0..(r[2] - 1) : r[1] + k \in faces}

\* _longest_consecutive_run
_longest_consecutive_run(faces) ==
    IF faces = {} THEN 0
    ELSE CHOOSE n \in Faces :
            /\ \E r \in RunsIn(faces) : r[2] = n
            /\ \A r \in RunsIn(faces) : r[2] <= n

\* _best_straight_run: the faces of the longest run, the lowest of equally long
\* ones
_best_straight_run(faces) ==
    IF faces = {} THEN {}
    ELSE LET best_len == _longest_consecutive_run(faces)
             best_start == CHOOSE a \in Faces :
                              /\ <<a, best_len>> \in RunsIn(faces)
                              /\ \A b \in Faces :
                                    <<b, best_len>> \in RunsIn(faces) => a <= b
         IN  best_start..(best_start + best_len - 1)

\* sorted((c for c in counts.values() if c > 0), reverse=True), first and second
\* element (0 when there is none)
ShapeFirst(counts) == counts[MostFrequent(counts)]

ShapeSecond(counts) ==
    LET others == DOMAIN counts \ {MostFrequent(counts)}
    IN  CHOOSE c \in 0..NumDice :
            /\ \E w \in others : counts[w] = c
            /\ \A w \in others : counts[w] <= c

\* _category_potential, in twentieths
_category_potential(values, category, rolls_left, yahtzee_bonus_eligible) ==
    LET counts == count_dice(values)
        best_value == MostFrequent(counts)
        best_count == counts[best_value]
        run_len == _longest_consecutive_run(ValueSet(values))
        dice_sum == SumOf(values)
    IN  IF IsUpper(category)
        THEN LET target == _upper_target_value(category)
                 matched == counts[target]
             IN  matched * target * 20 + (5 - matched) * target * 7 * rolls_left
        ELSE IF category = "three_kind"
        THEN IF best_count >= 3
             THEN dice_sum * 20 + (5 - best_count) * 20 * rolls_left
             ELSE best_count * best_value * 20
                  + (3 - best_count) * best_value * 30 * rolls_left
        ELSE IF category = "four_kind"
        THEN IF best_count >= 4
             THEN dice_sum * 20 + (5 - best_count) * 20 * rolls_left
             ELSE best_count * best_value * 20
                  + (4 - best_count) * best_value * 24 * rolls_left
        ELSE IF category = "yahtzee"
        THEN LET bonus == IF yahtzee_bonus_eligible THEN 100 ELSE 0
             IN  IF best_count = 5 THEN (50 + bonus) * 20
                 ELSE IF best_count >= 3
                 THEN best_count * 160 + (5 - best_count) * 60 * rolls_left + bonus * 2
                 ELSE best_count * 100 + rolls_left * 40
        ELSE IF category = "full_house"
        THEN LET first == ShapeFirst(counts)
                 second == ShapeSecond(counts)
             IN  IF second > 0 /\ first >= 3 /\ second >= 2 THEN 45 * 20
                 ELSE IF second > 0 /\ first >= 3 THEN (28 + rolls_left * 4) * 20
                 ELSE IF second > 0 /\ first >= 2 /\ second >= 2
                 THEN (24 + rolls_left * 3) * 20
                 ELSE (10 + rolls_left * 2) * 20
        ELSE IF category = "small_straight"
        THEN IF run_len >= 4 THEN 35 * 20 ELSE run_len * 140 + rolls_left * 80
        ELSE IF category = "large_straight"
        THEN IF run_len >= 5 THEN 48 * 20 ELSE run_len * 120 + rolls_left * 60
        ELSE IF category = "chance"
        THEN LET low_dice == Cardinality({i \in DOMAIN values : values[i] < 4})
             IN  dice_sum * 20 + low_dice * 30 * rolls_left
        ELSE 0

\* _pick_target_category: the first of the open categories with the highest
\* potential
_pick_target_category(values, open_categories, rolls_left, yahtzee_bonus_eligible) ==
    LET value == [i \in DOMAIN open_categories |->
                     _category_potential(values, open_categories[i], rolls_left,
                                         yahtzee_bonus_eligible)]
        highest == CHOOSE v \in {value[i] : i \in DOMAIN open_categories} :
                      \A i \in DOMAIN open_categories : value[i] <= v
        best == CHOOSE i \in DOMAIN open_categories :
                    /\ value[i] = highest
                    /\ \A j \in 1..(i - 1) : value[j] # highest
    IN  open_categories[best]

\* {max(range(5), key=lambda i: values[i])}: the first of the highest dice
HighestDie(values) ==
    {CHOOSE i \in DieIndices :
        /\ \A j \in DieIndices : values[j + 1] <= values[i + 1]
        /\ \A j \in 0..(i - 1) : values[j + 1] < values[i + 1]}

\* the indices of the dice whose value is in a set of faces
DiceShowing(values, faces) == {i \in DieIndices : values[i + 1] \in faces}

\* keep if keep else {max(...)}
KeepOrHighest(values, keep) == IF keep # {} THEN keep ELSE HighestDie(values)

\* _desired_keep_indices
_desired_keep_indices(values, category) ==
    LET counts == count_dice(values)
    IN  IF IsUpper(category)
        THEN KeepOrHighest(values, DiceShowing(values, {_upper_target_value(category)}))
        ELSE IF category \in {"three_kind", "four_kind", "yahtzee"}
        THEN KeepOrHighest(values, DiceShowing(values, {MostFrequent(counts)}))
        ELSE IF category = "full_house"
        THEN LET first == MostFrequent(counts)
                 rest == [f \in Faces |-> IF f = first THEN 0 ELSE counts[f]]
                 top_values == {first} \cup
                               (IF ShapeSecond(counts) > 0 THEN {MostFrequent(rest)}
                                ELSE {})
             IN  KeepOrHighest(values, DiceShowing(values, top_values))
        ELSE IF category \in {"small_straight", "large_straight"}
        THEN LET run == _best_straight_run(ValueSet(values))
                 keep == {i \in DieIndices :
                             /\ values[i + 1] \in run
                             /\ \A j \in 0..(i - 1) : values[j + 1] # values[i + 1]}
             IN  KeepOrHighest(values, keep)
        ELSE IF category = "chance"
        THEN KeepOrHighest(values, DiceShowing(values, 4..6))
        ELSE HighestDie(values)

\* YahtzeeGame.calculate_score, the callback the game passes: the score a
\* category gives for the dice
calculate_score(values, category) ==
    LET counts == count_dice(values)
        most == counts[MostFrequent(counts)]
        run_len == _longest_consecutive_run(ValueSet(values))
    IN  IF IsUpper(category)
        THEN counts[_upper_target_value(category)] * _upper_target_value(category)
        ELSE IF category = "three_kind" THEN (IF most >= 3 THEN SumOf(values) ELSE 0)
        ELSE IF category = "four_kind" THEN (IF most >= 4 THEN SumOf(values) ELSE 0)
        ELSE IF category = "full_house"
        THEN (IF most = 3 /\ ShapeSecond(counts) = 2 THEN 25 ELSE 0)
        ELSE IF category = "small_straight" THEN (IF run_len >= 4 THEN 30 ELSE 0)
        ELSE IF category = "large_straight" THEN (IF run_len >= 5 THEN 40 ELSE 0)
        ELSE IF category = "yahtzee" THEN (IF most = 5 THEN 50 ELSE 0)
        ELSE IF category = "chance" THEN SumOf(values)
        ELSE 0

\* max(0, 63 - total)
Gap(total) == IF total < 63 THEN 63 - total ELSE 0

\* the utility _pick_best_category_action gives a category, in fifths
Utility(player, cat) ==
    LET score == calculate_score(player.values, cat)
        counts == count_dice(player.values)
        yahtzee_bonus_active == counts[MostFrequent(counts)] = 5 /\ player.yahtzee = 50
        before_gap == Gap(player.upper_total)
        after_gap == Gap(player.upper_total + score)
    IN  score * 5
        + (IF yahtzee_bonus_active THEN 500 ELSE 0)
        + (IF IsUpper(cat) /\ before_gap > 0 THEN before_gap - after_gap ELSE 0)
        + (IF IsUpper(cat) /\ before_gap > 0 /\ after_gap = 0 THEN 175 ELSE 0)

\* the first element of a sequence that is in a sequence of candidates
FirstOf(order, candidates) ==
    LET hits == {i \in DOMAIN order : InSeq(order[i], candidates)}
    IN  IF hits = {} THEN None
        ELSE order[CHOOSE i \in hits : \A j \in hits : i <= j]

\* the waste order of _pick_best_category_action
waste_order(upper_bonus_lost) ==
    <<"yahtzee", "large_straight", "small_straight", "full_house", "four_kind",
      "three_kind">>
    \o (IF upper_bonus_lost
        THEN <<"ones", "twos", "threes", "chance", "fours", "fives", "sixes">>
        ELSE <<"chance", "ones", "twos", "threes", "fours", "fives", "sixes">>)

\* best_cat of _pick_best_category_action: the index of the first open category
\* with the highest utility, 0 when no category is open
BestIndex(player) ==
    LET utility == [i \in DOMAIN player.open |-> Utility(player, player.open[i])]
    IN  IF player.open = <<>> THEN 0
        ELSE CHOOSE i \in DOMAIN player.open :
                /\ \A j \in DOMAIN player.open : utility[j] <= utility[i]
                /\ \A j \in 1..(i - 1) : utility[j] < utility[i]

\* variant of _pick_best_category_action: when nothing scores, the first open
\* category of the score sheet is given up
_pick_best_category_action_SheetOrder(player) ==
    LET open_categories == player.open
        best == BestIndex(player)
    IN  IF best # 0 /\ calculate_score(player.values, open_categories[best]) > 0
        THEN Score(open_categories[best])
        ELSE IF open_categories # <<>> THEN Score(open_categories[1])
        ELSE Score(all_categories[1])

\* variant of _pick_best_category_action: when nothing scores, the first
\* category of the waste order is given up whether or not it is open
_pick_best_category_action_Unfiltered(player) ==
    LET open_categories == player.open
        best == BestIndex(player)
        upper_bonus_lost == ~player.upper_bonus_awarded /\ player.upper_total < 63
    IN  IF best # 0 /\ calculate_score(player.values, open_categories[best]) > 0
        THEN Score(open_categories[best])
        ELSE Score(waste_order(upper_bonus_lost)[1])

\* _pick_best_category_action
_pick_best_category_action(player) ==
    LET open_categories == player.open
        best == BestIndex(player)
        upper_bonus_lost == ~player.upper_bonus_awarded /\ player.upper_total < 63
        wasted == FirstOf(waste_order(upper_bonus_lost), open_categories)
    IN  IF best # 0 /\ calculate_score(player.values, open_categories[best]) > 0
        THEN Score(open_categories[best])
        ELSE IF wasted # None THEN Score(wasted)
        ELSE Score(all_categories[1])

\* the keep set bot_think wants while rolls are left
desired_keeps(player) ==
    LET yahtzee_bonus_eligible == player.yahtzee = 50
        target == _pick_target_category(player.values, player.open, player.rolls_left,
                                        yahtzee_bonus_eligible)
        counts == count_dice(player.values)
        best_val == MostFrequent(counts)
    IN  IF yahtzee_bonus_eligible /\ counts[best_val] >= 4
        THEN DiceShowing(player.values, {best_val})
        ELSE _desired_keep_indices(player.values, target)

\* the lowest die whose held state differs between two keep sets
FirstDifference(desired, current) ==
    CHOOSE i \in DieIndices :
        /\ (i \in desired) # (i \in current)
        /\ \A j \in 0..(i - 1) : (j \in desired) = (j \in current)

\* variant of bot_think: the bot rolls again before its keeps are reconciled
bot_think_RollFirst(player) ==
    LET desired == desired_keeps(player)
    IN  IF ~player.is_current THEN NoBotAction
        ELSE IF ~player.has_rolled THEN Roll
        ELSE IF player.open = <<>> THEN NoBotAction
        ELSE IF player.rolls_left > 0 /\ Cardinality(desired) < 5 THEN Roll
        ELSE IF player.rolls_left > 0 /\ desired # player.kept
        THEN ToggleDie(FirstDifference(desired, player.kept))
        ELSE _pick_best_category_action(player)

\* bot_think
bot_think(player) ==
    LET desired == desired_keeps(player)
    IN  IF ~player.is_current THEN NoBotAction
        ELSE IF ~player.has_rolled THEN Roll
        ELSE IF player.open = <<>> THEN NoBotAction
        ELSE IF player.rolls_left > 0 /\ desired # player.kept
        THEN ToggleDie(FirstDifference(desired, player.kept))
        ELSE IF player.rolls_left > 0 /\ Cardinality(desired) < 5 THEN Roll
        ELSE _pick_best_category_action(player)

\* player.scores.get("yahtzee") of a player who has not scored the category
NotScored == -1

\* bot_think not asked since the state last changed
NotAsked == BotAction("unasked", -1, None)

\* player.get_open_categories: the categories without a score, in the order of
\* the score sheet
get_open_categories(cats) == SelectSeq(all_categories, LAMBDA c : c \in cats)

\* a player of a new game: no category scored, the dice not rolled
NewYahtzeePlayer ==
    YahtzeePlayer(FALSE, FALSE, <<1, 1, 1, 1, 1>>, {}, MaxRolls,
                  get_open_categories(ValueSet(all_categories)), NotScored, 0, FALSE)

\* the game's toggle_die_<i> action: the die is held if it was not, and released
\* if it was
toggle_die(player, i) ==
    [player EXCEPT !.kept = IF i \in @ THEN @ \ {i} ELSE @ \cup {i}]

----------------------------------------------------------------------------
(* State machine *)

\* the game object as the record the pipeline works on
Machine ==
    [pending |-> pending, action_context |-> action_context,
     status_box_open |-> status_box_open, actions_menu_open |-> actions_menu_open,
     status |-> status, off |-> off, hid |-> hid, noOptions |-> noOptions,
     raises |-> FALSE, nests |-> None, log |-> <<>>]

Snapshot ==
    [pending |-> pending, status_box_open |-> status_box_open,
     actions_menu_open |-> actions_menu_open, status |-> status, off |-> off,
     hid |-> hid, noOptions |-> noOptions]

Call(kind, p, event, action_id, input_value) ==
    [kind |-> kind, p |-> p, event |-> event, action_id |-> action_id,
     input_value |-> input_value]

NoCall == Call("none", None, NoEvent, None, None)

\* the value of pre while no call is recorded
NoSnapshot ==
    [pending |-> [p \in Players |-> None], status_box_open |-> {},
     actions_menu_open |-> {}, status |-> None, off |-> {}, hid |-> {},
     noOptions |-> FALSE]

\* Game.__post_init__ and initialize_lobby
Init ==
    /\ pending = [p \in Players |-> None]
    /\ action_context = [p \in Players |-> NoContext]
    /\ status_box_open = {}
    /\ actions_menu_open = {}
    /\ status = "waiting"
    /\ off = {}
    /\ hid = {}
    /\ noOptions = FALSE
    /\ last = NoCall
    /\ pre = NoSnapshot
    /\ log = <<>>
    /\ resolutions = <<>>
    /\ turn_index = 0
    /\ turn_direction = 1
    /\ turn_skip_count = 0
    /\ turn_player_ids = <<>>
    /\ turn_last = NoTurnOp
    /\ turn_pre = TurnState
    /\ _estimate_threads = <<>>
    /\ _estimate_results = <<>>
    /\ _estimate_errors = <<>>
    /\ _estimate_running = FALSE
    /\ _estimate_lock = 0
    /\ estimate_report = NoReport
    /\ estimate_last = EstimateStep("none", 0)
    /\ estimate_pre = NoEstimate
    /\ restored = FALSE
    /\ saved_game = NewGame
    /\ _language_menu_callbacks = [u \in Usernames |-> NoPair]
    /\ warmup_active = FALSE
    /\ language_last = NoLanguageCall
    /\ language_pre = [callbacks |-> [u \in Usernames |-> NoPair], warmup |-> FALSE]
    /\ language_log = <<>>
    /\ language_result = None
    /\ yahtzee_player = NewYahtzeePlayer
    /\ bot_seen = NewYahtzeePlayer
    /\ bot_returned = NoBotAction
    /\ bot_toggles = 0

Commit(m) ==
    /\ last = NoCall
    /\ pending' = m.pending
    /\ action_context' = m.action_context
    /\ status_box_open' = m.status_box_open
    /\ actions_menu_open' = m.actions_menu_open
    /\ status' = m.status
    /\ off' = m.off
    /\ hid' = m.hid
    /\ noOptions' = m.noOptions
    /\ log' = m.log
    /\ resolutions' = <<>>
    /\ pre' = Snapshot
    /\ UNCHANGED <<turnVars, estimateVars, persistVars, languageVars, yahtzeeVars>>

\* one input event, handled to completion (Game.handle_event)
HandleEvent ==
    \E p \in EventPlayers : \E event \in EventsOf(p) : \E endTurn \in BOOLEAN :
        /\ Commit(handle_event(Machine, p, event, endTurn))
        /\ last' = Call("event", p, event, None, None)

\* the action ids the bot logic and the game code execute directly
DirectIds == {"roll", "add_bot", "set_rounds", "peek", "poke", StaleId}

\* a direct call of Game.execute_action (bot logic on a tick, game code); the
\* handler it reaches returns or raises
ExecuteAction ==
    \E p \in Players : \E action_id \in DirectIds :
      \E endTurn \in BOOLEAN : \E raises \in BOOLEAN :
        /\ Commit(execute_action([Machine EXCEPT !.raises = raises], p, action_id,
                                 None, NoContext, endTurn))
        /\ last' = Call("execute", p, NoEvent, action_id, None)

\* an action that is in none of a player's action sets
Unlisted == Action("ghost", "_action_ghost", NoInput, "action-not-available")

\* the actions the display code resolves
Resolvable(p) == {AllActions(p)[i] : i \in 1..Len(AllActions(p))} \cup {Unlisted}

\* display code resolving one action for one player, twice in a row
\* (Game.resolve_action assigns nothing)
ResolveAction ==
    \E p \in Players : \E action \in Resolvable(p) :
        /\ last = NoCall
        /\ resolutions' = << resolve_action(Machine, p, action),
                             resolve_action(Machine, p, action) >>
        /\ last' = Call("resolve", p, NoEvent, action.id, None)
        /\ pre' = Snapshot
        /\ log' = <<>>
        /\ UNCHANGED <<pending, action_context, status_box_open, actions_menu_open,
                       status, off, hid, noOptions>>
        /\ UNCHANGED <<turnVars, estimateVars, persistVars, languageVars, yahtzeeVars>>

\* the flags of the game state the rules code may change between two calls
Flags == {"off:roll", "off:add_bot", "off:set_rounds", "hid:roll", "hid:add_bot",
          "noOptions", "status"}

Flip(set, x) == IF x \in set THEN set \ {x} ELSE set \cup {x}

\* game rules acting between two calls: another player's move, a tick
RulesStep ==
    \E f \in Flags :
        /\ off' = IF f = "off:roll" THEN Flip(off, "roll")
                  ELSE IF f = "off:add_bot" THEN Flip(off, "add_bot")
                  ELSE IF f = "off:set_rounds" THEN Flip(off, "set_rounds")
                  ELSE off
        /\ hid' = IF f = "hid:roll" THEN Flip(hid, "roll")
                  ELSE IF f = "hid:add_bot" THEN Flip(hid, "add_bot")
                  ELSE hid
        /\ noOptions' = IF f = "noOptions" THEN ~noOptions ELSE noOptions
        /\ status' = IF f = "status"
                     THEN (IF status = "playing" THEN "waiting" ELSE "playing")
                     ELSE status
        /\ last = NoCall
        /\ UNCHANGED <<pending, action_context, status_box_open, actions_menu_open,
                       last, pre, log, resolutions>>
        /\ UNCHANGED <<turnVars, estimateVars, persistVars, languageVars, yahtzeeVars>>

\* the status box and the actions menu being shown to a player with a user
OpenMenu ==
    \E p \in EventPlayers \cap _users : \E which \in {"status_box", "actions_menu"} :
        /\ status_box_open' =
              IF which = "status_box" THEN status_box_open \cup {p} ELSE status_box_open
        /\ actions_menu_open' =
              IF which = "actions_menu" THEN actions_menu_open \cup {p}
              ELSE actions_menu_open
        /\ last = NoCall
        /\ status_box_open' # status_box_open \/ actions_menu_open' # actions_menu_open
        /\ UNCHANGED <<pending, action_context, status, off, hid, noOptions,
                       last, pre, log, resolutions>>
        /\ UNCHANGED <<turnVars, estimateVars, persistVars, languageVars, yahtzeeVars>>

\* the record of the last call is dropped before the next step is taken: last, pre
\* and log describe one call at a time
Forget ==
    /\ last # NoCall
    /\ last' = NoCall
    /\ pre' = NoSnapshot
    /\ log' = <<>>
    /\ resolutions' = <<>>
    /\ UNCHANGED <<pending, action_context, status_box_open, actions_menu_open,
                   status, off, hid, noOptions>>
    /\ UNCHANGED <<turnVars, estimateVars, persistVars, languageVars, yahtzeeVars>>

Next == HandleEvent \/ ExecuteAction \/ ResolveAction \/ RulesStep \/ OpenMenu \/ Forget

Spec == Init /\ [][Next]_vars

\* the actions a handler of the game may execute for its own player: one whose
\* handler resolves, one whose handler does not, one that asks for input
NestedIds == {"remove_bot", "peek", "add_bot"}

\* a key press whose handlers execute another action for the same player and
\* then read their context
NestedKeybind ==
    \E p \in EventPlayers : \E event \in KeybindEvents : \E nested \in NestedIds :
        /\ Commit(handle_event([Machine EXCEPT !.nests = nested], p, event, FALSE))
        /\ last' = Call("event", p, event, None, nested)

\* a direct call whose handler does the same
NestedExecute ==
    \E p \in Players : \E action_id \in DirectIds : \E nested \in NestedIds :
        /\ Commit(execute_action([Machine EXCEPT !.nests = nested], p, action_id,
                                 None, NoContext, FALSE))
        /\ last' = Call("execute", p, NoEvent, action_id, nested)

NestNext == NestedKeybind \/ NestedExecute \/ RulesStep \/ OpenMenu \/ Forget

NestSpec == Init /\ [][NestNext]_vars

----------------------------------------------------------------------------
(* State machine of the turn order: the operations the rules and the       *)
(* handlers of a game apply to the turn fields, each taken as one step.    *)

TurnCommit(t, op, arg) ==
    /\ turn_index' = t.turn_index
    /\ turn_direction' = t.turn_direction
    /\ turn_skip_count' = t.turn_skip_count
    /\ turn_player_ids' = t.turn_player_ids
    /\ turn_last' = TurnOp(op, arg)
    /\ turn_pre' = TurnState
    /\ UNCHANGED <<gameVars, estimateVars, persistVars, languageVars, yahtzeeVars>>

\* a direct call of advance_turn
AdvanceTurn == TurnCommit(advance_turn(TurnState), "advance_turn", None)

\* Game.end_turn, called from an action handler
EndTurn == TurnCommit(end_turn(TurnState), "end_turn", None)

\* game.current_player = player
SetCurrentPlayer ==
    \E player \in {players[i] : i \in DOMAIN players} \cup {None} :
        TurnCommit(set_current_player(TurnState, player), "set_current_player", player)

\* the rules skip the next player
SkipNextPlayers ==
    /\ turn_skip_count < MaxSkip
    /\ TurnCommit(skip_next_players(TurnState), "skip_next_players", None)

\* the rules reverse the direction of play
ReverseTurnDirection ==
    TurnCommit(reverse_turn_direction(TurnState), "reverse_turn_direction", None)

\* a player joins the turn order
AddTurnPlayer ==
    \E i \in DOMAIN players :
        /\ ~InSeq(players[i], turn_player_ids)
        /\ TurnCommit(add_turn_player(TurnState, players[i]), "add_turn_player",
                      players[i])

\* a player leaves the turn order
RemoveTurnPlayer ==
    \E i \in DOMAIN turn_player_ids :
        TurnCommit(remove_turn_player(TurnState, turn_player_ids[i]),
                   "remove_turn_player", turn_player_ids[i])

TurnNext ==
    \/ AdvanceTurn
    \/ EndTurn
    \/ SetCurrentPlayer
    \/ SkipNextPlayers
    \/ ReverseTurnDirection
    \/ AddTurnPlayer
    \/ RemoveTurnPlayer

TurnSpec == Init /\ [][TurnNext]_vars

----------------------------------------------------------------------------
(* State machine of the estimation: the game loop starts runs and polls    *)
(* for their completion on its ticks while the workers of a run take their *)
(* steps in any order.                                                     *)

EstimateCommit(e, op, who, found) ==
    /\ _estimate_threads' = e.threads
    /\ _estimate_results' = e.results
    /\ _estimate_errors' = e.errors
    /\ _estimate_running' = e.running
    /\ _estimate_lock' = e.lock
    /\ estimate_report' = e.report
    /\ estimate_last' = EstimateStep(op, who)
    /\ estimate_pre' = found
    /\ UNCHANGED <<gameVars, turnVars, persistVars, languageVars, yahtzeeVars>>

\* startEstimate(n), from the estimate action of a player
StartEstimate ==
    \E n \in 1..MaxWorkers :
        EstimateCommit(start_estimate(EstimateState, n), "start", 0, EstimateState)

\* Game.on_tick: the poll for completion
OnTick ==
    EstimateCommit(check_estimate_completion(EstimateState), "poll", 0, EstimateState)

\* the steps of the worker threads
WorkerRuns ==
    \E i \in DOMAIN _estimate_threads : \E outcome \in Outcomes :
        /\ _estimate_threads[i].pc = "run"
        /\ EstimateCommit(run_simulation(EstimateState, i, outcome), "worker", i,
                          NoEstimate)

WorkerAcquires ==
    \E i \in DOMAIN _estimate_threads :
        /\ _estimate_threads[i].pc = "acquire"
        /\ acquire(EstimateState, i) # EstimateState
        /\ EstimateCommit(acquire(EstimateState, i), "worker", i, NoEstimate)

WorkerReads ==
    \E i \in DOMAIN _estimate_threads :
        /\ _estimate_threads[i].pc = "read"
        /\ EstimateCommit(append_read(EstimateState, i), "worker", i, NoEstimate)

WorkerWrites ==
    \E i \in DOMAIN _estimate_threads :
        /\ _estimate_threads[i].pc = "write"
        /\ EstimateCommit(append_write(EstimateState, i), "worker", i, NoEstimate)

EstimateNext ==
    \/ StartEstimate
    \/ OnTick
    \/ WorkerRuns
    \/ WorkerAcquires
    \/ WorkerReads
    \/ WorkerWrites

EstimateSpec == Init /\ [][EstimateNext]_vars

\* the same under the scheduling the runtime gives: every thread that can take a
\* step takes it in the end, and the game loop keeps ticking
EstimateFairness ==
    /\ WF_vars(WorkerRuns)
    /\ WF_vars(WorkerAcquires)
    /\ WF_vars(WorkerReads)
    /\ WF_vars(WorkerWrites)
    /\ WF_vars(OnTick)

EstimateFairSpec == EstimateSpec /\ EstimateFairness

----------------------------------------------------------------------------
(* State machine of saving and loading: the game goes on (the turn order   *)
(* fills and moves, players are asked for input, an estimate of one worker *)
(* runs), and at any point it is saved and loaded again.                   *)

\* the turn states one move of the game leads to; players join in seat order
TurnMoves ==
    {advance_turn(TurnState), reverse_turn_direction(TurnState)}
    \cup (IF turn_skip_count < MaxSkip THEN {skip_next_players(TurnState)} ELSE {})
    \cup (IF Len(turn_player_ids) < Len(players)
          THEN {add_turn_player(TurnState, players[Len(turn_player_ids) + 1])}
          ELSE {})

\* the estimation states one step of the estimate leads to
EstimateMoves ==
    {start_estimate(EstimateState, 1), check_estimate_completion(EstimateState)}
    \cup UNION {
           CASE _estimate_threads[i].pc = "run" ->
                   {run_simulation(EstimateState, i, outcome) : outcome \in Outcomes}
             [] _estimate_threads[i].pc = "acquire" -> {acquire(EstimateState, i)}
             [] _estimate_threads[i].pc = "read" -> {append_read(EstimateState, i)}
             [] _estimate_threads[i].pc = "write" -> {append_write(EstimateState, i)}
             [] OTHER -> {}
           : i \in DOMAIN _estimate_threads}

NotRestored == restored' = FALSE /\ saved_game' = NewGame

\* the turn order fills and the turn moves
TurnGoesOn ==
    \E t \in TurnMoves :
        /\ turn_index' = t.turn_index
        /\ turn_direction' = t.turn_direction
        /\ turn_skip_count' = t.turn_skip_count
        /\ turn_player_ids' = t.turn_player_ids
        /\ NotRestored
        /\ UNCHANGED <<gameVars, turn_last, turn_pre, estimateVars, languageVars, yahtzeeVars>>

\* an action is executed for a player, which may leave an input pending
ActionGoesOn ==
    \E p \in Players : \E action_id \in DirectIds :
        LET m == execute_action(Machine, p, action_id, None, NoContext, FALSE)
        IN  /\ pending' = m.pending
            /\ action_context' = m.action_context
            /\ NotRestored
            /\ UNCHANGED <<status_box_open, actions_menu_open, status, off, hid,
                           noOptions, last, pre, log, resolutions, turnVars, estimateVars,
                           languageVars, yahtzeeVars>>

\* the estimate goes on
EstimateGoesOn ==
    \E e \in EstimateMoves :
        /\ _estimate_threads' = e.threads
        /\ _estimate_results' = e.results
        /\ _estimate_errors' = e.errors
        /\ _estimate_running' = e.running
        /\ _estimate_lock' = e.lock
        /\ estimate_report' = e.report
        /\ NotRestored
        /\ UNCHANGED <<gameVars, turnVars, estimate_last, estimate_pre, languageVars, yahtzeeVars>>

\* the game is saved and loaded from the save
SaveAndLoad ==
    LET g == from_dict(to_dict(GameObject), GameObject)
    IN  /\ status' = g.status
        /\ off' = g.off
        /\ hid' = g.hid
        /\ noOptions' = g.noOptions
        /\ turn_index' = g.turn_index
        /\ turn_direction' = g.turn_direction
        /\ turn_skip_count' = g.turn_skip_count
        /\ turn_player_ids' = g.turn_player_ids
        /\ pending' = g._pending_actions
        /\ action_context' = g._action_context
        /\ status_box_open' = g._status_box_open
        /\ actions_menu_open' = g._actions_menu_open
        /\ _estimate_threads' = g._estimate_threads
        /\ _estimate_results' = g._estimate_results
        /\ _estimate_errors' = g._estimate_errors
        /\ _estimate_running' = g._estimate_running
        /\ _estimate_lock' = g._estimate_lock
        /\ restored' = TRUE
        /\ saved_game' = GameObject
        /\ UNCHANGED <<last, pre, log, resolutions, turn_last, turn_pre, estimate_report,
                       estimate_last, estimate_pre, languageVars, yahtzeeVars>>

PersistNext == TurnGoesOn \/ ActionGoesOn \/ EstimateGoesOn \/ SaveAndLoad

PersistSpec == Init /\ [][PersistNext]_vars

----------------------------------------------------------------------------
(* State machine of the language menu: the server's features show the menu, *)
(* selections arrive, and the localization warmup starts and ends.          *)

LanguageCommit(l) ==
    /\ _language_menu_callbacks' = l.callbacks
    /\ language_log' = l.log
    /\ language_result' = l.result
    /\ language_pre' = [callbacks |-> _language_menu_callbacks, warmup |-> warmup_active]
    /\ UNCHANGED <<warmup_active, gameVars, turnVars, estimateVars, persistVars,
                   yahtzeeVars>>

\* a feature of the server shows the language menu to a user
ShowLanguageMenu ==
    \E user \in Usernames : \E on_select \in Callbacks : \E on_back \in Callbacks :
        /\ LanguageCommit(show_language_menu(
                LanguageState(_language_menu_callbacks, warmup_active),
                user, on_select, on_back))
        /\ language_last' = LanguageCall("show", user, <<>>, on_select, on_back, NoShow)

\* what the callbacks of the server's features do with the menu
Thens == {NoShow, Shows("second", None), Shows(None, "first")}

\* a selection in the language menu arrives from a user
HandleLanguageMenuSelection ==
    \E user \in Usernames : \E selection_id \in LanguageSelections : \E then \in Thens :
        /\ LanguageCommit(handle_language_menu_selection(
                LanguageState(_language_menu_callbacks, warmup_active),
                user, selection_id, then))
        /\ language_last' = LanguageCall("select", user, selection_id, None, None, then)

\* the localization warmup starts or ends
WarmupChanges ==
    /\ warmup_active' = ~warmup_active
    /\ UNCHANGED <<_language_menu_callbacks, language_last, language_pre, language_log,
                   language_result>>
    /\ UNCHANGED <<gameVars, turnVars, estimateVars, persistVars, yahtzeeVars>>

LanguageNext == ShowLanguageMenu \/ HandleLanguageMenuSelection \/ WarmupChanges

LanguageSpec == Init /\ [][LanguageNext]_vars

----------------------------------------------------------------------------
(* State machine of the Yahtzee bot: the game reaches a state, the bot is   *)
(* asked what to do, and the toggles it answers are applied one at a time   *)
(* until it answers something else.                                         *)

\* the dice the game is played with here
Hands ==
    {<<1, 1, 1, 4, 5>>, <<1, 2, 3, 4, 5>>, <<6, 6, 6, 6, 6>>, <<3, 3, 5, 5, 5>>,
     <<2, 2, 3, 3, 6>>, <<6, 3, 4, 5, 1>>, <<4, 4, 2, 4, 4>>, <<1, 2, 2, 5, 6>>,
     <<1, 1, 2, 2, 3>>, <<1, 2, 4, 5, 6>>}

\* the sets of open categories the game is played with here
OpenSets ==
    {{"three_kind"}, ValueSet(all_categories), {"yahtzee"}, {"chance"}, {"ones"},
     {"ones", "twos", "threes", "chance"}, {"fours", "fives", "sixes", "chance"},
     {"full_house", "small_straight", "large_straight"}, {"sixes", "four_kind"},
     {"twos", "large_straight", "yahtzee"}, {"threes", "chance"}, {}}

\* player.get_upper_total: the totals the game is played with here
UpperTotals == {0, 62, 63}

\* the highest total the scored upper categories can have
HighestUpperTotal(cats) ==
    Sum([t \in Faces |-> IF upper_categories[t] \in cats THEN 0 ELSE NumDice * t])

\* dice that have not been rolled, and the dice of a player who is not on
\* turn, are not held
KeptSets(is_current, has_rolled) ==
    IF is_current /\ has_rolled THEN SUBSET DieIndices ELSE {{}}

\* all rolls are left until the dice are rolled, fewer afterwards
RollsLeft(has_rolled) == IF has_rolled THEN 0..(MaxRolls - 1) ELSE {MaxRolls}

\* the yahtzee category is open exactly while it has no score
YahtzeeScores(cats) == IF "yahtzee" \in cats THEN {NotScored} ELSE {0, 50}

\* the upper total is the sum of the scored upper categories
PossibleTotals(cats) == {t \in UpperTotals : t <= HighestUpperTotal(cats)}

\* the bonus is awarded only for a total of 63 or more
Awards(upper_total) == IF upper_total >= 63 THEN BOOLEAN ELSE {FALSE}

\* the game reaches a state in which the bot is asked; a turn does not start
\* for a player whose sheet is full
Deal ==
    /\ bot_returned = NoBotAction
    /\ yahtzee_player = NewYahtzeePlayer
    /\ \E is_current \in BOOLEAN : \E has_rolled \in BOOLEAN : \E cats \in OpenSets :
       \E values \in Hands : \E kept \in KeptSets(is_current, has_rolled) :
       \E rolls_left \in RollsLeft(has_rolled) : \E yahtzee \in YahtzeeScores(cats) :
       \E upper_total \in PossibleTotals(cats) : \E awarded \in Awards(upper_total) :
        LET player == YahtzeePlayer(is_current, has_rolled, values, kept, rolls_left,
                                    get_open_categories(cats), yahtzee, upper_total,
                                    awarded)
        IN  /\ cats = {} /\ is_current => has_rolled
            /\ yahtzee_player' = player
            /\ bot_seen' = player
    /\ bot_returned' = NotAsked
    /\ bot_toggles' = 0
    /\ UNCHANGED <<gameVars, turnVars, estimateVars, persistVars, languageVars>>

\* the bot is asked, and a toggle it answers is applied
BotThinks ==
    /\ bot_returned.kind \in {"unasked", "toggle_die"}
    /\ bot_seen' = yahtzee_player
    /\ bot_returned' = bot_think(yahtzee_player)
    /\ IF bot_returned'.kind = "toggle_die"
       THEN /\ yahtzee_player' = toggle_die(yahtzee_player, bot_returned'.die)
            /\ bot_toggles' = bot_toggles + 1
       ELSE UNCHANGED <<yahtzee_player, bot_toggles>>
    /\ UNCHANGED <<gameVars, turnVars, estimateVars, persistVars, languageVars>>

\* the answer is carried out and the game goes on
GameGoesOn ==
    /\ bot_returned.kind \in {"roll", "score", "none"}
    /\ <<yahtzee_player, bot_returned>> # <<NewYahtzeePlayer, NoBotAction>>
    /\ yahtzee_player' = NewYahtzeePlayer
    /\ bot_seen' = NewYahtzeePlayer
    /\ bot_returned' = NoBotAction
    /\ bot_toggles' = 0
    /\ UNCHANGED <<gameVars, turnVars, estimateVars, persistVars, languageVars>>

YahtzeeNext == Deal \/ BotThinks \/ GameGoesOn

YahtzeeSpec == Init /\ [][YahtzeeNext]_vars

----------------------------------------------------------------------------
(* Reading the record of the last call *)

LogIdx(k) == {i \in DOMAIN log : log[i].k = k}

\* the handler invocations of the last call
HandlerRuns == LogIdx("handler")

\* the execute_action calls of the last call
Executes == LogIdx("execute_action")

\* the menu refreshes of the last call
Refreshes == LogIdx("rebuild_all_menus") \cup LogIdx("rebuild_player_menu")

IsEvent == last.kind = "event"

IsMenuEvent(menu_id) ==
    IsEvent /\ last.event.type = "menu" /\ last.event.menu_id = menu_id

IsEditboxEvent ==
    IsEvent /\ last.event.type = "editbox" /\ last.event.input_id = "action_input_editbox"

IsKeybindEvent == IsEvent /\ last.event.type = "keybind"

\* the action the player had pending when the last call started
PendingBefore == IF last.p \in Players THEN pre.pending[last.p] ELSE None

----------------------------------------------------------------------------
(* C1 *)

\* execute_action is called without a value for a human with a user, on an action
\* that has an input request and resolved as enabled when the call started
SuspendCase ==
    /\ last.kind = "execute"
    /\ ~is_bot(last.p)
    /\ get_user(last.p) # None
    /\ LET action == find_action(last.p, last.action_id)
       IN  /\ action # NoAction
           /\ action.input_request # NoInput
           /\ action.id \notin pre.off

\* the input request of the suspended action can be shown
HasOptions ==
    find_action(last.p, last.action_id).input_request = MenuInput => ~pre.noOptions

Suspended == pending[last.p] = last.action_id /\ HandlerRuns = {}

\* an input event brings a value while the player has a pending action
InputCase ==
    /\ PendingBefore # None
    /\ \/ IsMenuEvent("action_input_menu") /\ last.event.selection_id # "_cancel"
       \/ IsEditboxEvent /\ last.event.text # ""

InputValue ==
    IF last.event.type = "menu" THEN last.event.selection_id ELSE last.event.text

\* the pending action can still run when its value arrives
StillExecutable ==
    LET action == find_action(last.p, PendingBefore)
    IN  /\ action # NoAction
        /\ action.id \notin pre.off
        /\ action.handler \in Handlers

Resumed ==
    /\ Cardinality(HandlerRuns) = 1
    /\ \A i \in HandlerRuns :
          log[i].p = last.p /\ log[i].a = PendingBefore /\ log[i].v = InputValue
    /\ pending[last.p] = None

\* C1 as stated: a human's execute_action on an enabled action with an input request
\* and no value records the pending action and runs no handler; the input event
\* that brings the value runs the handler exactly once with it and clears the
\* pending action.
C1_Original == (SuspendCase => Suspended) /\ (InputCase => Resumed)

\* C1, amended: the pending action is recorded unless a menu input has no options
\* (then nothing stays pending and "no-options-available" is spoken); the value runs
\* the handler once if the action is still found, enabled and has its handler, and
\* no handler otherwise; the pending action is cleared in every case.
C1_SuspendResume ==
    /\ SuspendCase /\ HasOptions => Suspended
    /\ SuspendCase /\ ~HasOptions =>
          /\ pending[last.p] = None
          /\ HandlerRuns = {}
          /\ \E i \in LogIdx("speak") : log[i].a = "no-options-available"
    /\ InputCase /\ StillExecutable => Resumed
    /\ InputCase /\ ~StillExecutable => HandlerRuns = {} /\ pending[last.p] = None

C1_Witness ==
    /\ InputCase
    /\ IsMenuEvent("action_input_menu")
    /\ PendingBefore = "set_rounds"
    /\ last.event.selection_id = "opt2"
    /\ Resumed

----------------------------------------------------------------------------
(* C2 *)

\* C2 as stated: while a player has a pending action, no turn-menu, actions-menu or
\* keybind event of that player makes a handler run for that player.
C2_PendingSuspendsDispatch ==
    /\ PendingBefore # None
    /\ IsMenuEvent("turn_menu") \/ IsMenuEvent("actions_menu") \/ IsKeybindEvent
    => \A i \in HandlerRuns : log[i].p # last.p

----------------------------------------------------------------------------
(* C3 *)

\* C3: every handler invocation, on every dispatch path, is for an action of the
\* player's sets that resolves as enabled at the moment the handler is entered.
C3_HandlerOnlyIfEnabled ==
    \A i \in HandlerRuns :
        /\ find_action(log[i].p, log[i].a) # NoAction
        /\ log[i].a \notin log[i].off

\* a key press runs a handler while another action is disabled
C3_Witness ==
    /\ IsKeybindEvent
    /\ HandlerRuns # {}
    /\ pre.off # {}

----------------------------------------------------------------------------
(* C4 *)

CancelCase ==
    /\ IsMenuEvent("action_input_menu")
    /\ last.event.selection_id = "_cancel"
    /\ PendingBefore # None

\* C4: the cancel sentinel removes the pending action, runs no handler (no
\* execute_action at all) and refreshes the player's menu.
C4_CancelDiscards ==
    CancelCase =>
        /\ pending[last.p] = None
        /\ HandlerRuns = {}
        /\ Executes = {}
        /\ Len(log) = 1
        /\ log[1].k = "rebuild_player_menu"
        /\ log[1].p = last.p

C4_Witness == CancelCase /\ PendingBefore = "set_rounds" /\ pending[last.p] = None

----------------------------------------------------------------------------
(* C5 *)

EmptyTextCase ==
    /\ IsEditboxEvent
    /\ last.event.text = ""
    /\ PendingBefore # None

\* C5: an empty text cancels: the pending action is removed and no handler runs.
C5_EmptyTextCancels ==
    EmptyTextCase =>
        /\ pending[last.p] = None
        /\ HandlerRuns = {}
        /\ Executes = {}

C5_Witness == EmptyTextCase /\ PendingBefore = "add_bot" /\ pending[last.p] = None

----------------------------------------------------------------------------
(* C6 *)

\* C6 as stated: a turn-menu event that supplies a selection id never has an action
\* chosen by index: whatever is executed is the action the id names.
C6_Original ==
    IsMenuEvent("turn_menu") /\ last.event.selection_id # ""
    => \A i \in Executes : log[i].a = last.event.selection_id

\* C6, amended: the index decides only when the event supplies no selection id or
\* an id that names no action of the player's sets; an id that names one of the
\* player's actions is authoritative.
C6_IdAuthoritative ==
    /\ IsMenuEvent("turn_menu") /\ find_action(last.p, last.event.selection_id) # NoAction
       => \A i \in Executes : log[i].a = last.event.selection_id
    /\ IsMenuEvent("turn_menu") /\ (\E i \in Executes : log[i].a # last.event.selection_id)
       => \/ last.event.selection_id = ""
          \/ find_action(last.p, last.event.selection_id) = NoAction

\* the id names add_bot while index 1 points at roll, and add_bot is executed
C6_Witness ==
    /\ IsMenuEvent("turn_menu")
    /\ last.event.selection_id = "add_bot"
    /\ last.event.selection = 1
    /\ "roll" \notin pre.hid
    /\ \E i \in Executes : log[i].a = "add_bot"

----------------------------------------------------------------------------
(* C7 *)

\* the ids of the actions not hidden under the flags hidden, in menu order
VisibleIds(hidden, p) ==
    LET Shown(a) == a.id \notin hidden
        acts == SelectSeq(AllActions(p), Shown)
    IN  [i \in 1..Len(acts) |-> acts[i].id]

\* the turn-menu event falls back to the index
FallbackCase ==
    /\ IsMenuEvent("turn_menu")
    /\ \/ last.event.selection_id = ""
       \/ find_action(last.p, last.event.selection_id) = NoAction

\* C7: on the index fallback with selection k, execute_action is called once, for
\* the k-th action visible under the flags the event is handled with; with k
\* outside 1..len(visible) nothing is executed and nothing is refreshed.
C7_IndexFallback ==
    FallbackCase =>
        LET visible == VisibleIds(pre.hid, last.p)
            k == last.event.selection
        IN  IF k \in 1..Len(visible)
            THEN /\ Cardinality(Executes) = 1
                 /\ \A i \in Executes : log[i].a = visible[k] /\ log[i].p = last.p
                 /\ \A i \in HandlerRuns : log[i].a = visible[k]
            ELSE log = <<>> /\ pending = pre.pending

\* index 2 while roll is hidden: the second visible action, remove_bot, runs
C7_Witness ==
    /\ FallbackCase
    /\ pre.hid = {"roll"}
    /\ last.event.selection = 2
    /\ \E i \in HandlerRuns : log[i].a = "remove_bot"

\* the index is past the end of the visible list: nothing happens
C7_OutOfRange ==
    /\ FallbackCase
    /\ last.event.selection > Len(VisibleIds(pre.hid, last.p))
    /\ log = <<>>

----------------------------------------------------------------------------
(* C8 *)

\* C8: when a turn-menu event has called execute_action, rebuild_all_menus is called
\* once, as the last thing, if the player has no pending action afterwards, and no
\* menu is refreshed if the player has one.
C8_RefreshUnlessPending ==
    IsMenuEvent("turn_menu") /\ Executes # {} =>
        IF pending[last.p] = None
        THEN /\ Cardinality(Refreshes) = 1
             /\ log[Len(log)].k = "rebuild_all_menus"
        ELSE Refreshes = {}

\* the executed action asked for input: it is pending and nothing was refreshed
C8_Witness ==
    /\ IsMenuEvent("turn_menu")
    /\ Executes # {}
    /\ PendingBefore = None
    /\ pending[last.p] = "set_rounds"
    /\ Refreshes = {}

\* the executed action ran: the menus were refreshed
C8_WitnessRefreshed ==
    /\ IsMenuEvent("turn_menu")
    /\ HandlerRuns # {}
    /\ pending[last.p] = None
    /\ log[Len(log)].k = "rebuild_all_menus"

----------------------------------------------------------------------------
(* C9 *)

\* the bindings of the pressed key the player can use, given the state before
UsableBindings ==
    LET key == CanonicalKey(last.event)
    IN  IF key \notin DOMAIN _keybinds THEN {}
        ELSE {i \in 1..Len(_keybinds[key]) :
                /\ can_player_use(_keybinds[key][i], pre, last.p,
                                  _is_player_spectator(last.p))
                /\ _keybinds[key][i].requires_focus
                   => InSeq(last.event.menu_item_id, _keybinds[key][i].actions)}

\* the action ids the last event dispatched to
Reached ==
    IF IsMenuEvent("turn_menu") \/ IsMenuEvent("actions_menu")
    THEN {last.event.selection_id} \cap ActionIds
    ELSE IF IsKeybindEvent
         THEN {a \in ActionIds :
                 \E i \in UsableBindings :
                     InSeq(a, _keybinds[CanonicalKey(last.event)][i].actions)}
         ELSE {}

\* C9 as stated: when a turn-menu, actions-menu or keybind event reaches an action
\* that is not enabled, a configured reason is spoken to the player's user; without
\* a reason nothing is spoken, no handler runs and no pending action changes.
C9_DisabledReasonSpoken ==
    \A a \in Reached :
        a \in pre.off /\ get_user(last.p) # None =>
            LET action == find_action(last.p, a)
            IN  IF action.reason # None
                THEN \E i \in LogIdx("speak") :
                        log[i].p = last.p /\ log[i].a = action.reason
                ELSE /\ LogIdx("speak") = {}
                     /\ \A i \in HandlerRuns : log[i].a # a
                     /\ pending[last.p] # a \/ PendingBefore = a

\* the part of C9 the code keeps: a key press that reaches a disabled action
\* speaks its reason
C9_KeybindSpeaks ==
    IsKeybindEvent =>
        \A a \in Reached :
            a \in pre.off /\ get_user(last.p) # None
            /\ find_action(last.p, a).reason # None
            => \E i \in LogIdx("speak") :
                  log[i].p = last.p /\ log[i].a = find_action(last.p, a).reason

----------------------------------------------------------------------------
(* C10 *)

\* a key press of b (in either case) without ctrl or alt
PressB ==
    /\ IsKeybindEvent
    /\ lower(last.event.key) = <<"b">>
    /\ ~last.event.control
    /\ ~last.event.alt

\* the lobby bindings are open to the player: not playing, not a spectator
LobbyOpen == pre.status # "playing" /\ ~_is_player_spectator(last.p)

\* C10: b with shift reaches the binding defined under shift+b (remove_bot, executed
\* when the binding applies and the action is enabled) and no other; b without shift
\* does not reach it (it reaches the binding under b, add_bot); a key string that
\* equals no defined key reaches nothing.
C10_ShiftB ==
    /\ PressB /\ last.event.shift =>
          /\ \A i \in Executes : log[i].a = "remove_bot"
          /\ LobbyOpen /\ "remove_bot" \notin pre.off => Executes # {}
    /\ PressB /\ ~last.event.shift =>
          /\ \A i \in Executes : log[i].a = "add_bot"
          /\ LobbyOpen /\ "add_bot" \notin pre.off => Executes # {}
    /\ IsKeybindEvent /\ lower(last.event.key) \in {<<"b">>, <<"shift+", "b">>}
       /\ last.event.control
       => log = <<>>

C10_Witness ==
    /\ PressB
    /\ last.event.shift
    /\ \E i \in HandlerRuns : log[i].a = "remove_bot"

----------------------------------------------------------------------------
(* C11 *)

\* the key string the canonical key of the last key press is rebuilt to when it is
\* sent again with the same modifier flags
Recanonicalized == CanonicalKey([last.event EXCEPT !.key = CanonicalKey(last.event)])

\* how often a prefix occurs in a key string
Occurrences(key, prefix) == Cardinality({i \in DOMAIN key : key[i] = prefix})

\* C11: for every combination of the shift, ctrl and alt flags the canonical key
\* holds each modifier prefix at most once, also when an already canonical key is
\* canonicalized again with the same flags, which returns it unchanged.
C11_CanonicalOnce ==
    IsKeybindEvent =>
        /\ \A prefix \in {"shift+", "ctrl+", "alt+"} :
              /\ Occurrences(CanonicalKey(last.event), prefix) <= 1
              /\ Occurrences(Recanonicalized, prefix) <= 1
        /\ Recanonicalized = CanonicalKey(last.event)

\* the part of C11 the code keeps: with at most one modifier flag set a canonical
\* key is returned unchanged
C11_SingleModifier ==
    IsKeybindEvent
    /\ Cardinality({f \in {"shift", "control", "alt"} :
                      (f = "shift" /\ last.event.shift)
                      \/ (f = "control" /\ last.event.control)
                      \/ (f = "alt" /\ last.event.alt)}) <= 1
    => Recanonicalized = CanonicalKey(last.event)

----------------------------------------------------------------------------
(* C12 *)

\* the bindings defined under the key of the last key press, in definition order
PressedBindings ==
    IF IsKeybindEvent /\ CanonicalKey(last.event) \in DOMAIN _keybinds
    THEN _keybinds[CanonicalKey(last.event)]
    ELSE <<>>

\* the phase of the game allows a binding of this applicability state
PhaseAllows(state, phase) ==
    \/ state = ALWAYS
    \/ state = IDLE /\ phase # "playing"
    \/ state = ACTIVE /\ phase = "playing"

\* the binding is open to the player of the last call in the state before it
Applicable(keybind) ==
    /\ PhaseAllows(keybind.state, pre.status)
    /\ keybind.players = {} \/ last.p \in keybind.players
    /\ _is_player_spectator(last.p) => keybind.include_spectators

\* the focus requirement of the binding is met by the last key press
FocusMet(keybind) ==
    keybind.requires_focus => InSeq(last.event.menu_item_id, keybind.actions)

\* an action id of the player's sets that resolved as enabled before the call
EnabledBefore(a) == a \in ActionIds /\ a \notin pre.off

\* the action ids due for execution, binding after binding
RECURSIVE DueExecutions(_)
DueExecutions(keybinds) ==
    IF keybinds = <<>> THEN <<>>
    ELSE (IF Applicable(Head(keybinds)) /\ FocusMet(Head(keybinds))
          THEN SelectSeq(Head(keybinds).actions, EnabledBefore)
          ELSE <<>>)
         \o DueExecutions(Tail(keybinds))

IsExecute(entry) == entry.k = "execute_action"

\* the action ids execute_action was called with during the last call, in order
Executed ==
    LET calls == SelectSeq(log, IsExecute)
    IN  [i \in DOMAIN calls |-> calls[i].a]

\* C12: a key press executes, binding after binding in definition order and within
\* a binding in list order, every enabled action id of every binding of that key
\* that applies; a binding that does not apply or an action that is disabled takes
\* nothing away from the others (enablement as it stands throughout the event).
C12_AllBindingsTried ==
    IsKeybindEvent /\ off = pre.off => Executed = DueExecutions(PressedBindings)

\* two bindings of one key both executed, around one that did not apply
C12_Witness ==
    /\ IsKeybindEvent
    /\ off = pre.off
    /\ Len(PressedBindings) = 3
    /\ ~Applicable(PressedBindings[1])
    /\ Executed = <<"set_rounds", "peek", "peek">>
    /\ "roll" \in pre.off

----------------------------------------------------------------------------
(* C13 *)

\* C13: every action a key press executes is listed by a binding of that key whose
\* applicability state matches the phase of the game, whose allow-list is empty or
\* holds the player, and which includes spectators if the player is one.
C13_InapplicableContributesNothing ==
    IsKeybindEvent =>
        \A i \in Executes :
            \E j \in DOMAIN PressedBindings :
                /\ Applicable(PressedBindings[j])
                /\ InSeq(log[i].a, PressedBindings[j].actions)

\* a key with bindings, none of which applies, executed nothing; for a spectator,
\* for a player off the allow-list and for the phase
C13_Witness ==
    /\ IsKeybindEvent
    /\ PressedBindings # <<>>
    /\ \A j \in DOMAIN PressedBindings : ~Applicable(PressedBindings[j])
    /\ _is_player_spectator(last.p)
    /\ Executes = {}

C13_WitnessPhase ==
    /\ IsKeybindEvent
    /\ ~_is_player_spectator(last.p)
    /\ \E j \in DOMAIN PressedBindings :
          /\ ~PhaseAllows(PressedBindings[j].state, pre.status)
          /\ EnabledBefore(PressedBindings[j].actions[1])
    /\ Executes = {}

----------------------------------------------------------------------------
(* C14 *)

\* C14: every action a key press executes is listed by a binding of that key which
\* applies and which either does not require focus or lists the focused menu item;
\* a binding that requires focus executes nothing for a press without focused item.
C14_FocusRequired ==
    IsKeybindEvent =>
        \A i \in Executes :
            \E j \in DOMAIN PressedBindings :
                /\ Applicable(PressedBindings[j])
                /\ FocusMet(PressedBindings[j])
                /\ InSeq(log[i].a, PressedBindings[j].actions)

\* a binding that requires focus applied, its first action (roll) was enabled, and
\* the press carried no focused item: that action was not executed, while another
\* binding of the key executed its own
C14_Witness ==
    /\ IsKeybindEvent
    /\ last.event.menu_item_id = None
    /\ \E j \in DOMAIN PressedBindings :
          /\ PressedBindings[j].requires_focus
          /\ Applicable(PressedBindings[j])
          /\ PressedBindings[j].actions[1] = "roll"
    /\ EnabledBefore("roll")
    /\ Executes # {}
    /\ \A i \in Executes : log[i].a # "roll"

\* the same for a press focused on an item the binding does not list
C14_WitnessOtherItem ==
    /\ IsKeybindEvent
    /\ last.event.menu_item_id = "add_bot"
    /\ \E j \in DOMAIN PressedBindings :
          /\ PressedBindings[j].requires_focus
          /\ Applicable(PressedBindings[j])
    /\ EnabledBefore("roll")
    /\ \A i \in Executes : log[i].a # "roll"

\* the same binding executed its actions for a press focused on one of them
C14_WitnessFocused ==
    /\ IsKeybindEvent
    /\ last.event.menu_item_id = "roll"
    /\ pre.status = "playing"
    /\ last.p = "p1"
    /\ Executed = <<"roll", "roll", "peek">>

----------------------------------------------------------------------------
(* C15 *)

\* C15: a key press refreshes the menus exactly when it executed an action and the
\* player then has no pending action and is in neither the status-box-open nor the
\* actions-menu-open set; a press that executed nothing refreshes nothing.
C15_KeybindRefresh ==
    IsKeybindEvent =>
        (Refreshes # {}) =
            (/\ Executes # {}
             /\ pending[last.p] = None
             /\ last.p \notin status_box_open
             /\ last.p \notin actions_menu_open)

\* an action executed and the refresh was held back by an open status box
C15_Witness ==
    /\ IsKeybindEvent
    /\ Executes # {}
    /\ pending[last.p] = None
    /\ last.p \in status_box_open
    /\ Refreshes = {}

C15_WitnessRefreshed ==
    /\ IsKeybindEvent
    /\ Executes # {}
    /\ Refreshes # {}

C15_WitnessPending ==
    /\ IsKeybindEvent
    /\ Executes # {}
    /\ pending[last.p] # None
    /\ PendingBefore = None
    /\ Refreshes = {}

----------------------------------------------------------------------------
(* C16 *)

\* C16: in every state of the turn order, with a non-empty turn_player_ids the
\* current player is the player whose id stands at position turn_index modulo the
\* length of the list as it is now (also right after an id was added or removed),
\* and with an empty list there is no current player.
C16_CurrentPlayer ==
    LET n == Len(turn_player_ids)
    IN  IF n = 0
        THEN current_player(TurnState) = None
        ELSE \E k \in 0..(n - 1) :
                /\ (turn_index - k) % n = 0
                /\ current_player(TurnState) = turn_player_ids[k + 1]

\* an id was removed and the index now lies past the end of the list
C16_Witness ==
    /\ turn_last.op = "remove_turn_player"
    /\ turn_player_ids # <<>>
    /\ turn_index >= Len(turn_player_ids)
    /\ current_player(TurnState) # current_player(turn_pre)

C16_WitnessEmpty ==
    /\ turn_last.op = "remove_turn_player"
    /\ turn_player_ids = <<>>

----------------------------------------------------------------------------
(* C17 *)

IsSetCurrent == turn_last.op = "set_current_player"

\* C17: setting current_player to a player whose id is in turn_player_ids makes
\* turn_index the position of that id, so that the getter returns that player;
\* setting it to None or to a player outside turn_player_ids changes none of
\* turn_index, turn_direction, turn_skip_count and turn_player_ids.
C17_SetCurrentPlayer ==
    IsSetCurrent =>
        IF turn_last.arg # None /\ InSeq(turn_last.arg, turn_pre.turn_player_ids)
        THEN /\ turn_pre.turn_player_ids[turn_index + 1] = turn_last.arg
             /\ current_player(TurnState) = turn_last.arg
             /\ turn_direction = turn_pre.turn_direction
             /\ turn_skip_count = turn_pre.turn_skip_count
             /\ turn_player_ids = turn_pre.turn_player_ids
        ELSE TurnState = turn_pre

\* the setter moved the turn to another player
C17_Witness ==
    /\ IsSetCurrent
    /\ turn_last.arg # None
    /\ InSeq(turn_last.arg, turn_pre.turn_player_ids)
    /\ turn_index # turn_pre.turn_index

\* the setter was given a player outside a non-empty turn order
C17_WitnessOutside ==
    /\ IsSetCurrent
    /\ turn_last.arg # None
    /\ turn_pre.turn_player_ids # <<>>
    /\ ~InSeq(turn_last.arg, turn_pre.turn_player_ids)
    /\ turn_pre.turn_index # 0

----------------------------------------------------------------------------
(* C18 *)

IsAdvance == turn_last.op \in {"advance_turn", "end_turn"}

\* C18: an advance over a non-empty turn order moves the index by the direction
\* once and once more for every pending skip, modulo the number of players, and
\* every advance leaves skip_count at zero; from index 3 of 4 players in forward
\* direction it lands on index 0 without a skip and on index 1 with one skip.
C18_AdvanceTurn ==
    IsAdvance =>
        LET n == Len(turn_pre.turn_player_ids)
        IN  /\ turn_skip_count = 0
            /\ turn_direction = turn_pre.turn_direction
            /\ turn_player_ids = turn_pre.turn_player_ids
            /\ n > 0 =>
                  turn_index =
                     (turn_pre.turn_index
                        + turn_pre.turn_direction * (1 + turn_pre.turn_skip_count)) % n
            /\ n = 4 /\ turn_pre.turn_index = 3 /\ turn_pre.turn_direction = 1 =>
                  /\ turn_pre.turn_skip_count = 0 => turn_index = 0
                  /\ turn_pre.turn_skip_count = 1 => turn_index = 1

\* the advance from index 3 of 4 players with one pending skip
C18_Witness ==
    /\ IsAdvance
    /\ Len(turn_pre.turn_player_ids) = 4
    /\ turn_pre.turn_index = 3
    /\ turn_pre.turn_direction = 1
    /\ turn_pre.turn_skip_count = 1
    /\ turn_index = 1

\* an advance against the direction of the list wrapped below zero
C18_WitnessReverse ==
    /\ IsAdvance
    /\ turn_pre.turn_direction = -1
    /\ turn_pre.turn_index = 0
    /\ turn_pre.turn_skip_count = 1
    /\ Len(turn_pre.turn_player_ids) = 3
    /\ turn_index = 1

----------------------------------------------------------------------------
(* C19 *)

\* a start that found an estimate running
StartWhileRunning == estimate_last.op = "start" /\ estimate_pre.running

\* C19: a start made while an estimate is running, at whatever point of the
\* workers' progress, starts no worker and leaves the running flag, the workers,
\* the results and the errors as it found them.
C19_StartWhileRunning ==
    StartWhileRunning =>
        /\ _estimate_running
        /\ _estimate_threads = estimate_pre.threads
        /\ _estimate_results = estimate_pre.results
        /\ _estimate_errors = estimate_pre.errors
        /\ _estimate_lock = estimate_pre.lock
        /\ estimate_report = estimate_pre.report

\* the second start came while one worker had reported and another held the lock
C19_Witness ==
    /\ StartWhileRunning
    /\ _estimate_results # <<>>
    /\ _estimate_lock # 0
    /\ \E i \in DOMAIN _estimate_threads : _estimate_threads[i].pc = "run"

----------------------------------------------------------------------------
(* C20 *)

\* the workers whose append is made
Appended == {i \in DOMAIN _estimate_threads : _estimate_threads[i].pc = "done"}

\* the workers inside the with block
InLock == {i \in DOMAIN _estimate_threads :
             _estimate_threads[i].pc \in {"read", "write"}}

\* C20: at every point of a run the results hold one tick count for every worker
\* that has appended a success and the errors one message for every worker that has
\* appended a failure, at most one worker is inside the lock, and once all n
\* workers have finished len(results) + len(errors) = n.
C20_AppendOnce ==
    _estimate_running =>
        /\ Len(_estimate_results) =
              Cardinality({i \in Appended : _estimate_threads[i].outcome.kind = "ticks"})
        /\ Len(_estimate_errors) =
              Cardinality({i \in Appended : _estimate_threads[i].outcome.kind = "error"})
        /\ Cardinality(InLock) <= 1
        /\ (\A i \in DOMAIN _estimate_threads : ~is_alive(_estimate_threads[i]))
              => Len(_estimate_results) + Len(_estimate_errors) = Len(_estimate_threads)

\* all workers of a run of three have finished, with successes and a failure
C20_Witness ==
    /\ _estimate_running
    /\ Len(_estimate_threads) = 3
    /\ \A i \in DOMAIN _estimate_threads : ~is_alive(_estimate_threads[i])
    /\ Len(_estimate_results) = 2
    /\ Len(_estimate_errors) = 1

----------------------------------------------------------------------------
(* C21 *)

IsPoll == estimate_last.op = "poll"

\* a worker of the run the last start or poll found is unfinished
Unfinished ==
    \E i \in DOMAIN estimate_pre.threads : is_alive(estimate_pre.threads[i])

\* C21: a poll made while a worker of the run is unfinished leaves the running flag
\* set, merges nothing and reports nothing (every estimation field stays as the
\* poll found it); the poll is a step of its own that waits for no worker, and the
\* running flag is cleared by no step other than a poll that finds every worker
\* finished.
C21_PollWhileUnfinished ==
    /\ IsPoll /\ estimate_pre.running /\ Unfinished => EstimateState = estimate_pre
    /\ IsPoll /\ estimate_pre.running /\ ~_estimate_running => ~Unfinished
    /\ estimate_last.op = "worker" => _estimate_running

\* a poll found one worker finished and another not
C21_Witness ==
    /\ IsPoll
    /\ estimate_pre.running
    /\ Unfinished
    /\ estimate_pre.results # <<>>
    /\ _estimate_running

----------------------------------------------------------------------------
(* C22 *)

\* the last poll closed a run
RunClosed == IsPoll /\ estimate_pre.running /\ ~_estimate_running

\* the workers of the closed run whose playout ended with a tick count
Succeeded ==
    {i \in DOMAIN estimate_pre.threads : estimate_pre.threads[i].outcome.kind = "ticks"}

\* the workers of the closed run whose playout raised
Raised ==
    {i \in DOMAIN estimate_pre.threads : estimate_pre.threads[i].outcome.kind = "error"}

RECURSIVE TicksOf(_)
TicksOf(workers) ==
    IF workers = {} THEN 0
    ELSE LET i == CHOOSE j \in workers : TRUE
         IN  estimate_pre.threads[i].outcome.ticks + TicksOf(workers \ {i})

\* C22: when a run is closed, every worker that raised stands in the errors with
\* one message and has no entry in the results; the report is the failure of the
\* estimate exactly when the errors cover all n workers, and otherwise a summary of
\* the tick counts of the workers that succeeded and of nothing else.
C22_SummaryOfSuccesses ==
    RunClosed =>
        /\ Len(estimate_pre.errors) = Cardinality(Raised)
        /\ Len(estimate_pre.results) = Cardinality(Succeeded)
        /\ (estimate_report.kind = "failed") =
              (Len(estimate_pre.errors) = Len(estimate_pre.threads))
        /\ estimate_report.kind # "failed" =>
              estimate_report =
                 Report("summary", Cardinality(Succeeded), TicksOf(Succeeded))

\* a run of three with one worker that raised was closed with a summary
C22_Witness ==
    /\ RunClosed
    /\ Cardinality(Raised) = 1
    /\ Cardinality(Succeeded) = 2
    /\ estimate_report.kind = "summary"

C22_WitnessAllFailed ==
    /\ RunClosed
    /\ Cardinality(Raised) = 3
    /\ estimate_report.kind = "failed"

----------------------------------------------------------------------------
(* C23 *)

\* the orders a list can be put in
Orders(seq) ==
    {perm \in [DOMAIN seq -> DOMAIN seq] :
        \A i, j \in DOMAIN seq : i # j => perm[i] # perm[j]}

Reordered(seq, perm) == [i \in DOMAIN seq |-> seq[perm[i]]]

\* C23: the report of a closed run is the one the merge gives for every other order
\* in which the same results and errors could have come in.
C23_OrderIndependent ==
    RunClosed =>
        \A rp \in Orders(estimate_pre.results) : \A ep \in Orders(estimate_pre.errors) :
            summarize([estimate_pre EXCEPT
                          !.results = Reordered(estimate_pre.results, rp),
                          !.errors = Reordered(estimate_pre.errors, ep)])
               = estimate_report

\* the workers of the closed run reported in another order than they were started
C23_Witness ==
    /\ RunClosed
    /\ Len(estimate_pre.threads) = 3
    /\ estimate_pre.threads[1].outcome = Outcome("ticks", 1)
    /\ estimate_pre.threads[2].outcome = Outcome("error", 0)
    /\ estimate_pre.threads[3].outcome = Outcome("ticks", TickCeiling)
    /\ estimate_pre.results = <<TickCeiling, 1>>

----------------------------------------------------------------------------
(* C24 *)

\* C24: under fair scheduling of the workers and with the game loop polling on
\* every tick, an estimation run that was started is closed in the end (the
\* running flag is cleared).
C24_RunTerminates == _estimate_running ~> ~_estimate_running

\* a run was closed, the estimation was idle, and the next start began a new run
C24_Witness ==
    /\ estimate_last.op = "start"
    /\ ~estimate_pre.running
    /\ estimate_pre.report # NoReport
    /\ _estimate_running
    /\ Len(_estimate_threads) >= 1
    /\ _estimate_results = <<>>
    /\ _estimate_errors = <<>>

\* the safety part of C24: a start that finds the estimation idle is accepted
C24_StartAccepted ==
    estimate_last.op = "start" /\ ~estimate_pre.running =>
        /\ _estimate_running
        /\ _estimate_threads # <<>>
        /\ \A i \in DOMAIN _estimate_threads : _estimate_threads[i].pc = "run"

----------------------------------------------------------------------------
(* C25 *)

\* the turn fields of the loaded game are those of the game that was saved
TurnRoundTrip ==
    /\ turn_player_ids = saved_game.turn_player_ids
    /\ turn_index = saved_game.turn_index
    /\ turn_direction = saved_game.turn_direction
    /\ turn_skip_count = saved_game.turn_skip_count

----------------------------------------------------------------------------
(* C26 *)

\* C26: a game loaded from its save has no estimate: it is not running, has no
\* worker threads, no results and no errors, and its lock is free, whatever the
\* estimation of the saved game was.
C26_EstimateNotPersisted ==
    restored =>
        /\ ~_estimate_running
        /\ _estimate_threads = <<>>
        /\ _estimate_results = <<>>
        /\ _estimate_errors = <<>>
        /\ _estimate_lock = 0

\* the game was saved while its estimate was running, the worker inside the lock
C26_Witness ==
    /\ restored
    /\ saved_game._estimate_running
    /\ saved_game._estimate_lock = 1
    /\ ~_estimate_running

C26_WitnessResults ==
    /\ restored
    /\ saved_game._estimate_running
    /\ saved_game._estimate_results # <<>>

----------------------------------------------------------------------------
(* C27: resolve_action *)

IsResolve == last.kind = "resolve"

\* the ids of the actions in a player's action sets
ListedIds(p) == {AllActions(p)[i].id : i \in 1..Len(AllActions(p))}

C27_WitnessListed ==
    /\ IsResolve
    /\ last.action_id = "roll"
    /\ ~resolutions[1].enabled
    /\ resolutions[2].disabled_reason = "action-not-your-turn"

----------------------------------------------------------------------------
(* C28: the lifetime of an ActionContext *)

\* the players a context is stored for when a log entry is made
Stored(entry) == {q \in Players : entry.ctx[q].present}

\* the entries made by a handler while it runs: the handler's start, an exception
\* leaving it, the option assignment and the menu rebuild that follows it
InFlight(i) ==
    \/ log[i].k \in {"handler", "raise", "setattr"}
    \/ log[i].k = "rebuild_all_menus" /\ i > 1 /\ log[i - 1].k = "setattr"

\* the handler entry an in-flight entry belongs to
HandlerOf(i) == CHOOSE j \in 1..i : log[j].k = "handler" /\ \A h \in (j + 1)..i : log[h].k # "handler"

\* C28: a context is stored for a player exactly while a handler runs for that
\* player: none is stored when the entry of execute_action is made, exactly that
\* player's is stored from the start of the handler until it returns or raises,
\* and none is stored in the state a call leaves behind
C28_ContextLifetime ==
    /\ \A p \in Players : action_context[p] = NoContext
    /\ \A i \in DOMAIN log :
          IF InFlight(i)
          THEN /\ Stored(log[i]) = {log[HandlerOf(i)].p}
               /\ log[i].ctx = log[HandlerOf(i)].ctx
          ELSE Stored(log[i]) = {}
    /\ \A i \in DOMAIN log :
          log[i].k = "handler" =>
              /\ i > 1
              /\ log[i - 1].k = "execute_action"
              /\ log[i - 1].p = log[i].p

\* a direct call whose handler raised: the context was stored when the handler
\* started and when it raised
C28_Witness ==
    /\ last.kind = "execute"
    /\ \E i \in DOMAIN log : log[i].k = "raise" /\ Stored(log[i]) = {last.p}

\* an event whose handler returned after assigning an option
C28_WitnessReturned ==
    /\ last.kind = "event"
    /\ \E i \in DOMAIN log : log[i].k = "setattr" /\ Stored(log[i]) = {last.p}
    /\ \E i \in DOMAIN log : log[i].k = "rebuild_player_menu" /\ Stored(log[i]) = {}

----------------------------------------------------------------------------
(* C29: missing references *)

\* the id the last call or event names
NamedId == IF last.kind = "execute" THEN last.action_id ELSE last.event.selection_id

\* the last call or event names an action by id
NamesAnId ==
    \/ last.kind = "execute"
    \/ (IsMenuEvent("turn_menu") \/ IsMenuEvent("actions_menu")) /\ NamedId # ""

\* the named id is found in none of the player's action sets
MissingAction == NamesAnId /\ find_action(last.p, NamedId) = NoAction

\* the named action is found and its handler name does not resolve on the game
MissingHandler ==
    /\ NamesAnId
    /\ find_action(last.p, NamedId) # NoAction
    /\ find_action(last.p, NamedId).handler \notin Handlers

\* a key press no binding is registered for
UnboundKey == IsKeybindEvent /\ CanonicalKey(last.event) \notin DOMAIN _keybinds

\* no handler ran, nothing was raised, and pending actions, contexts and turn state
\* are those the call started from
Quiet ==
    /\ HandlerRuns = {}
    /\ LogIdx("raise") = {}
    /\ pending = pre.pending
    /\ \A p \in Players : action_context[p] = NoContext
    /\ TurnState = turn_pre

\* C29 as stated: every event or call that names an action id found in no action
\* set, or an action whose handler does not resolve, runs no handler, raises
\* nothing and leaves pending actions, contexts and turn state unchanged
C29_Original == MissingAction \/ MissingHandler \/ UnboundKey => Quiet

\* C29, amended: a direct call or an actions-menu selection that names an id found
\* in no action set, a key no binding is registered for, and a call or selection of
\* an action without input request whose handler does not resolve, are silent
\* no-ops.  A turn-menu selection whose id is found in no set is dispatched by its
\* index instead.  An action with an input request whose handler does not resolve
\* never runs a handler and raises nothing, yet its prompt is shown and it becomes
\* the pending action of a human caller.
C29_MissingReferenceSilent ==
    /\ MissingAction /\ ~IsMenuEvent("turn_menu") => Quiet /\ Len(log) <= 1
    /\ UnboundKey => Quiet /\ log = <<>>
    /\ MissingHandler /\ find_action(last.p, NamedId).input_request = NoInput => Quiet
    /\ MissingHandler =>
          /\ \A i \in HandlerRuns : log[i].a # NamedId
          /\ LogIdx("raise") = {}
          /\ \A p \in Players : action_context[p] = NoContext
    /\ MissingAction /\ IsMenuEvent("turn_menu") =>
          \A i \in Executes :
              /\ last.event.selection >= 1
              /\ last.event.selection <= Len(get_all_visible_actions(pre, last.p))
              /\ log[i].a = get_all_visible_actions(pre, last.p)[last.event.selection].action.id

\* a direct call names an unknown id while a player has an action pending
C29_Witness ==
    /\ last.kind = "execute"
    /\ MissingAction
    /\ PendingBefore # None
    /\ Len(log) = 1
    /\ pending = pre.pending

\* a turn-menu selection names an action whose handler does not resolve
C29_WitnessHandler ==
    /\ IsMenuEvent("turn_menu")
    /\ MissingHandler
    /\ NamedId = "peek"
    /\ Executes # {}
    /\ HandlerRuns = {}

\* a turn-menu selection with an unknown id runs the handler of the action at
\* its index
C29_WitnessIndex ==
    /\ IsMenuEvent("turn_menu")
    /\ MissingAction
    /\ HandlerRuns # {}

\* a human's call of an action with input request and unresolvable handler leaves
\* that action pending
C29_WitnessPrompt ==
    /\ MissingHandler
    /\ NamedId = "poke"
    /\ PendingBefore = None
    /\ pending[last.p] = "poke"

----------------------------------------------------------------------------
(* C30: a submitted option value that fails validation *)

\* the player answers the input menu of the pending option action with a value
\* that is no choice of the option
InvalidCase ==
    /\ IsMenuEvent("action_input_menu")
    /\ PendingBefore = "set_rounds"
    /\ ~IsCancel(last.event.selection_id)
    /\ ~validate_and_convert(last.event.selection_id)

\* C30 as stated: the refused value is not assigned and the event triggers no menu
\* rebuild at all
C30_Original == InvalidCase => LogIdx("setattr") = {} /\ Refreshes = {}

\* C30, amended: the refused value is not assigned, the flags of the game are
\* unchanged and rebuild_all_menus is not called; the pending action is consumed
\* all the same, and the event ends with one rebuild of the submitting player's own
\* menu
C30_InvalidValueRejected ==
    InvalidCase =>
        /\ LogIdx("setattr") = {}
        /\ LogIdx("rebuild_all_menus") = {}
        /\ <<off, hid, status, noOptions>> = <<pre.off, pre.hid, pre.status, pre.noOptions>>
        /\ pending[last.p] = None
        /\ \A q \in Players \ {last.p} : pending[q] = pre.pending[q]
        /\ LogIdx("rebuild_player_menu") = {Len(log)}
        /\ log[Len(log)].p = last.p
        /\ ("set_rounds" \notin pre.off =>
                \E i \in HandlerRuns :
                    log[i].a = "set_rounds" /\ log[i].v = last.event.selection_id)

\* the option handler ran with a value that is no choice and assigned nothing
C30_Witness ==
    /\ InvalidCase
    /\ last.event.selection_id = "bad"
    /\ HandlerRuns # {}
    /\ LogIdx("setattr") = {}
    /\ LogIdx("rebuild_player_menu") # {}

----------------------------------------------------------------------------
(* C31: the actions menu *)

GoBackCase == IsMenuEvent("actions_menu") /\ last.event.selection_id = "go_back"

\* a selection in the actions menu other than go_back
OtherSelection == IsMenuEvent("actions_menu") /\ last.event.selection_id # "go_back"

\* the call ended with a rebuild of the player's own menu, the only one
PlayerMenuRefreshed ==
    /\ LogIdx("rebuild_player_menu") = {Len(log)}
    /\ log[Len(log)].p = last.p

\* the call executed an action that left the player waiting for input
LeftPending ==
    /\ Executes # {}
    /\ pending[last.p] # None
    /\ pending[last.p] # PendingBefore

GoBackOnlyRefreshes ==
    GoBackCase =>
        /\ Executes = {}
        /\ HandlerRuns = {}
        /\ pending = pre.pending
        /\ actions_menu_open = pre.actions_menu_open \ {last.p}
        /\ Len(log) = 1
        /\ PlayerMenuRefreshed

C31_WitnessPending ==
    /\ OtherSelection
    /\ LeftPending
    /\ Refreshes = {}

\* a selection runs a handler and the menu is refreshed
C31_WitnessRefreshed ==
    /\ OtherSelection
    /\ HandlerRuns # {}
    /\ PlayerMenuRefreshed

----------------------------------------------------------------------------
(* C32: closing the status box *)

StatusBoxCase == IsMenuEvent("status_box")

----------------------------------------------------------------------------
(* C35: the input for a pending action arrives after the action was disabled *)

\* the value an input event supplies, None when it supplies none
SuppliedValue ==
    IF IsMenuEvent("action_input_menu") /\ ~IsCancel(last.event.selection_id)
    THEN last.event.selection_id
    ELSE IF IsEditboxEvent /\ HasText(last.event.text) THEN last.event.text
    ELSE None

\* a value arrives for the player's pending action
InputArrives == SuppliedValue # None /\ PendingBefore # None

\* ... and the action resolved as not enabled when it arrived
DisabledMeanwhile == InputArrives /\ PendingBefore \in pre.off

\* C35: when the value for a pending action arrives and the action resolves as
\* not enabled at that moment, execute_action is called with the value and
\* returns before the handler: no handler runs, nothing is assigned, and the
\* player has no pending action afterwards
C35_ReevaluatedOnInput ==
    DisabledMeanwhile =>
        /\ \E i \in Executes :
              log[i].p = last.p /\ log[i].a = PendingBefore /\ log[i].v = SuppliedValue
        /\ HandlerRuns = {}
        /\ LogIdx("setattr") = {}
        /\ pending[last.p] = None
        /\ PlayerMenuRefreshed

\* the text for add_bot arrives after add_bot was disabled: the reason is spoken
C35_Witness ==
    /\ DisabledMeanwhile
    /\ PendingBefore = "add_bot"
    /\ IsEditboxEvent
    /\ \E i \in LogIdx("speak") : log[i].a = "action-not-host"
    /\ pending[last.p] = None

\* the choice for set_rounds arrives after set_rounds was disabled
C35_WitnessMenu ==
    /\ DisabledMeanwhile
    /\ PendingBefore = "set_rounds"
    /\ last.event.selection_id = "opt1"
    /\ HandlerRuns = {}

\* the same value arriving while the action is still enabled runs the handler
C35_WitnessEnabled ==
    /\ InputArrives
    /\ ~DisabledMeanwhile
    /\ PendingBefore = "set_rounds"
    /\ last.event.selection_id = "opt1"
    /\ LogIdx("setattr") # {}

----------------------------------------------------------------------------
(* C36: the kind of the input event and the kind of the input request *)

\* the input request of the action the player had pending
RequestedKind == find_action(last.p, PendingBefore).input_request

\* the kind of input the last event carries
EventKind ==
    IF IsMenuEvent("action_input_menu") THEN MenuInput
    ELSE IF IsEditboxEvent THEN EditboxInput
    ELSE None

\* C36: an input event consumes the player's pending action only when it is of
\* the kind the action requested, and a handler started by an input event only
\* receives a value of the kind its action requested
C36_KindMatches ==
    EventKind # None /\ PendingBefore # None =>
        /\ (pending[last.p] # PendingBefore => EventKind = RequestedKind)
        /\ \A i \in HandlerRuns :
              find_action(log[i].p, log[i].a).input_request = EventKind

----------------------------------------------------------------------------
(* C37: bots and pending actions *)

\* a direct call for a bot of an enabled action that requests input
BotNeedsInput ==
    /\ last.kind = "execute"
    /\ is_bot(last.p)
    /\ find_action(last.p, last.action_id) # NoAction
    /\ find_action(last.p, last.action_id).input_request # NoInput
    /\ last.action_id \notin pre.off

\* the input substituted for a bot: what the bot-input method of add_bot gives,
\* the first option of a menu, the default text of an editbox
BotValue ==
    IF last.action_id = "add_bot" THEN "botname"
    ELSE IF find_action(last.p, last.action_id).input_request = MenuInput
         THEN (IF pre.noOptions THEN None ELSE OptionChoices[1])
         ELSE ""

\* C37: a bot has no pending action in any state a call leaves behind; when a bot
\* executes an action that requests input, the value is substituted within the
\* call, no prompt is shown, the handler (if it resolves) runs with that value
\* while nothing is pending for the bot, and when no value can be produced the
\* handler does not run
C37_BotNeverPending ==
    /\ \A p \in Players : is_bot(p) => pending[p] = None
    /\ BotNeedsInput =>
          /\ LogIdx("show_menu") \cup LogIdx("show_editbox") = {}
          /\ \A i \in HandlerRuns :
                /\ log[i].v = BotValue
                /\ log[i].pending[last.p] = None
          /\ (BotValue = None => HandlerRuns = {})
          /\ (/\ BotValue # None
              /\ find_action(last.p, last.action_id).handler \in Handlers
              /\ LogIdx("raise") = {}
              => \E i \in HandlerRuns : log[i].a = last.action_id)

\* a bot executes the option action: the first option is taken
C37_Witness ==
    /\ BotNeedsInput
    /\ last.action_id = "set_rounds"
    /\ \E i \in HandlerRuns : log[i].v = "opt1"
    /\ pending[last.p] = None

\* a bot executes the option action while there are no options
C37_WitnessNoInput ==
    /\ BotNeedsInput
    /\ BotValue = None
    /\ HandlerRuns = {}
    /\ pending[last.p] = None

----------------------------------------------------------------------------
(* C38: the context a handler reads *)

\* the context supplied for the execution the last call triggered
SuppliedContext ==
    IF IsKeybindEvent
    THEN ActionContext(last.event.menu_item_id, last.event.menu_index, TRUE)
    ELSE DefaultContext

\* the log entries at which the handler of the triggered execution reads its
\* context: when it starts (not the start of a handler it executed itself) and
\* after the execution it triggered has returned
ContextReads ==
    {i \in DOMAIN log :
        \/ log[i].k = "get_action_context"
        \/ log[i].k = "handler" /\ ~log[i - 1].ctx[log[i].p].present}

\* C38: whenever the handler of an execution reads get_action_context for its
\* player, at its start or after an execute_action it called for the same player
\* has returned, it gets the context supplied for its execution
C38_ContextDuringHandler ==
    \A i \in ContextReads :
        get_action_context(log[i].ctx, log[i].p) = SuppliedContext

\* the context a handler finds when it starts is the supplied one
C38_ContextAtStart ==
    \A i \in ContextReads :
        log[i].k = "handler" => get_action_context(log[i].ctx, log[i].p) = SuppliedContext

----------------------------------------------------------------------------
(* C40: language-menu callbacks *)

IsSelect == language_last.op = "select"

IsShow == language_last.op = "show"

\* the callbacks the last call called
CallbackRuns == {i \in DOMAIN language_log : language_log[i].k \in {"on_select", "on_back"}}

\* the pair stored for the user when the last call started
HadPair == language_pre.callbacks[language_last.user]

\* the callback a selection is for, and its argument
Chosen ==
    IF startswith(language_last.selection_id, "lang_")
    THEN [k |-> "on_select", callback |-> HadPair.on_select,
          arg |-> Tail(language_last.selection_id)]
    ELSE [k |-> "on_back", callback |-> HadPair.on_back, arg |-> <<>>]

\* the showing of the menu by the called callback took place
ShownAgain ==
    /\ CallbackRuns # {}
    /\ language_last.then.shows
    /\ ~language_pre.warmup

OthersKept ==
    \A u \in Usernames \ {language_last.user} :
        _language_menu_callbacks[u] = language_pre.callbacks[u]

\* C40: a selection removes the user's stored pair before it dispatches, calls
\* on_select with the language code for a lang_ selection and on_back otherwise,
\* once at most and only if that callback was stored, and leaves a pair stored
\* only if the callback itself showed the menu again; so a second selection
\* without a new showing calls nothing.  A showing during the warmup stores
\* nothing and shows no menu; any other showing replaces the pair stored for
\* that username and no other.
C40_CallbacksConsumedOnce ==
    /\ IsSelect =>
          /\ Cardinality(CallbackRuns) <= 1
          /\ (CallbackRuns # {} <=> Chosen.callback # None)
          /\ \A i \in CallbackRuns :
                /\ language_log[i].k = Chosen.k
                /\ language_log[i].a = <<Chosen.callback, Chosen.arg>>
                /\ language_log[i].user = language_last.user
                /\ ~language_log[i].stored.present
          /\ (~HadPair.present => CallbackRuns = {})
          /\ _language_menu_callbacks[language_last.user] =
                IF ShownAgain
                THEN Pair(language_last.then.on_select, language_last.then.on_back)
                ELSE NoPair
          /\ OthersKept
    /\ IsShow =>
          /\ OthersKept
          /\ IF language_result = FALSE
             THEN /\ language_pre.warmup
                  /\ _language_menu_callbacks = language_pre.callbacks
                  /\ \A i \in DOMAIN language_log : language_log[i].k # "show_menu"
             ELSE /\ ~language_pre.warmup
                  /\ language_result = TRUE
                  /\ _language_menu_callbacks[language_last.user] =
                        Pair(language_last.on_select, language_last.on_back)
                  /\ \E i \in DOMAIN language_log : language_log[i].k = "show_menu"

\* a lang_ selection of a user whose pair holds both callbacks calls on_select
\* with the code and leaves nothing stored
C40_Witness ==
    /\ IsSelect
    /\ HadPair.present
    /\ HadPair.on_select # None
    /\ HadPair.on_back # None
    /\ language_last.selection_id = <<"lang_", "de">>
    /\ CallbackRuns # {}
    /\ ~_language_menu_callbacks[language_last.user].present

\* a selection of a user without stored pair calls nothing
C40_WitnessSecond ==
    /\ IsSelect
    /\ ~HadPair.present
    /\ language_log = <<>>

\* a showing during the warmup left the earlier pair in place
C40_WitnessWarmup ==
    /\ IsShow
    /\ language_result = FALSE
    /\ HadPair.present
    /\ _language_menu_callbacks[language_last.user] = HadPair
    /\ HadPair # Pair(language_last.on_select, language_last.on_back)

\* a showing replaced the earlier pair of the user
C40_WitnessReplaced ==
    /\ IsShow
    /\ language_result = TRUE
    /\ HadPair.present
    /\ _language_menu_callbacks[language_last.user] # HadPair

\* the called callback showed the menu again and its pair is the one stored
C40_WitnessShownAgain ==
    /\ IsSelect
    /\ ShownAgain
    /\ _language_menu_callbacks[language_last.user].present

----------------------------------------------------------------------------
(* C33: the Yahtzee bot reconciles its keeps before it rolls *)

\* bot_think has been asked about bot_seen and has answered bot_returned
Asked == bot_returned.kind # "unasked"

\* the player is on turn after rolling, with rolls left and a category open
Reconciling(player) ==
    /\ player.is_current
    /\ player.has_rolled
    /\ player.open # <<>>
    /\ player.rolls_left > 0

\* the dice whose held state differs from the desired keep set
Differing(player) ==
    LET desired == desired_keeps(player)
    IN  (player.kept \ desired) \cup (desired \ player.kept)

\* C33: on its turn after rolling with rolls left, while the held dice differ
\* from the desired keep set (the three 1s, dice 0, 1 and 2, for 1 1 1 4 5 with
\* only three_kind open), the bot answers a toggle of a die whose held state
\* differs, never a roll; every applied toggle removes that die from the
\* differing ones, and the toggles applied plus the dice still differing are
\* never more than 5.
C33_KeepsBeforeRoll ==
    /\ Asked /\ Reconciling(bot_seen)
          => LET differing == Differing(bot_seen)
             IN  /\ differing # {}
                       => /\ bot_returned.kind = "toggle_die"
                          /\ bot_returned.die \in differing
                          /\ Differing(yahtzee_player) = differing \ {bot_returned.die}
                 /\ bot_seen.values = <<1, 1, 1, 4, 5>> /\ bot_seen.open = <<"three_kind">>
                       => desired_keeps(bot_seen) = {0, 1, 2}
    /\ Reconciling(yahtzee_player)
          => bot_toggles + Cardinality(Differing(yahtzee_player)) <= 5

\* the bot toggles a die of 1 1 1 4 5 with only three_kind open
C33_Witness ==
    /\ Reconciling(bot_seen)
    /\ bot_seen.values = <<1, 1, 1, 4, 5>>
    /\ bot_seen.open = <<"three_kind">>
    /\ bot_seen.kept = {3, 4}
    /\ bot_returned = ToggleDie(0)
    /\ yahtzee_player.kept = {0, 3, 4}

\* five toggles were needed, and after them the bot rolls
C33_WitnessFive ==
    /\ Reconciling(bot_seen)
    /\ bot_toggles = 5
    /\ Differing(yahtzee_player) = {}
    /\ bot_returned = Roll

----------------------------------------------------------------------------
(* C34: the category the Yahtzee bot scores *)

\* the bot commits to score
Committing == Asked /\ bot_returned.kind = "score" /\ bot_seen.open # <<>>

\* the open categories that score above zero for the dice
Scoring(player) ==
    {player.open[i] : i \in {j \in DOMAIN player.open :
                                calculate_score(player.values, player.open[j]) > 0}}

\* the upper bonus is still unawarded with the upper total below 63
BonusUnawarded(player) == ~player.upper_bonus_awarded /\ player.upper_total < 63

\* the waste order while the upper bonus is unawarded, and otherwise
UnawardedOrder ==
    <<"yahtzee", "large_straight", "small_straight", "full_house", "four_kind",
      "three_kind", "ones", "twos", "threes", "chance", "fours", "fives", "sixes">>

OtherOrder ==
    <<"yahtzee", "large_straight", "small_straight", "full_house", "four_kind",
      "three_kind", "chance", "ones", "twos", "threes", "fours", "fives", "sixes">>

\* C34: when the bot commits to score and some open category scores above
\* zero, it scores an open category that scores above zero and whose utility no
\* open category exceeds; when no open category scores above zero, and only
\* then, it scores the first open category of the waste order, in which ones,
\* twos and threes come before chance while the upper bonus is unawarded with
\* the upper total below 63, and chance comes first among the tail otherwise.
C34_BestOrWaste ==
    Committing =>
        IF Scoring(bot_seen) # {}
        THEN /\ bot_returned.category \in Scoring(bot_seen)
             /\ \A i \in DOMAIN bot_seen.open :
                    Utility(bot_seen, bot_seen.open[i])
                        <= Utility(bot_seen, bot_returned.category)
        ELSE bot_returned.category =
                FirstOf(IF BonusUnawarded(bot_seen) THEN UnawardedOrder ELSE OtherOrder,
                        bot_seen.open)

\* the bot scores the best of several categories that score
C34_Witness ==
    /\ Committing
    /\ Cardinality(Scoring(bot_seen)) > 1
    /\ bot_returned.category \in Scoring(bot_seen)
    /\ \E c \in Scoring(bot_seen) :
          Utility(bot_seen, c) < Utility(bot_seen, bot_returned.category)

\* nothing scores while the bonus is unawarded: the bot gives up the first
\* open category of the waste order, which is not the first of the sheet
C34_WitnessWaste ==
    /\ Committing
    /\ Scoring(bot_seen) = {}
    /\ BonusUnawarded(bot_seen)
    /\ bot_seen.open = <<"twos", "large_straight", "yahtzee">>
    /\ bot_returned = Score("yahtzee")

\* nothing scores after the bonus was awarded: the bot gives up an upper
\* category
C34_WitnessAwarded ==
    /\ Committing
    /\ Scoring(bot_seen) = {}
    /\ ~BonusUnawarded(bot_seen)
    /\ bot_returned = Score("ones")

----------------------------------------------------------------------------
(* C39: what bot_think answers *)

C39_WitnessFull ==
    /\ Asked
    /\ bot_seen.is_current
    /\ bot_seen.open = <<>>
    /\ bot_returned = NoBotAction

\* the player is not the current player: the bot answers nothing
C39_WitnessNotCurrent ==
    /\ Asked
    /\ ~bot_seen.is_current
    /\ bot_seen.has_rolled
    /\ bot_seen.open # <<>>
    /\ bot_returned = NoBotAction

\* the current player has not rolled: the bot answers roll
C39_WitnessRoll ==
    /\ Asked
    /\ bot_seen.is_current
    /\ ~bot_seen.has_rolled
    /\ bot_returned = Roll

====
